---- MODULE Spec2Model ----
(***************************************************************************)
(* A model of the live decision loop of the trading execution backend:     *)
(* StrategyManager, the entry-signal handler and TradeExecutor,            *)
(* ConditionMonitor, PortfolioMonitor, CircuitBreaker and the emergency    *)
(* route.  Every await of the source is a point where another handler,     *)
(* timer or request may run, so a handler is a sequence of actions, one    *)
(* per stretch of code between two awaits.                                 *)
(*                                                                         *)
(* Money is counted in cents and percentages in whole percents.            *)
(***************************************************************************)
EXTENDS Integers, FiniteSets, Sequences, TLC

\* ----------------------------------------------------------------- bounds
NStrategies == 2
MaxHandlers == 2
MaxPositions == 2
MaxTrips == 2
MaxListeners == 2
MaxPasses == 2
MaxChains == 1
NSymbols == 1
MaxSockets == 2
MaxTimers == 2
MaxTicks == 2
MaxErrors == 10
MaxDays == 3
MaxSilence == 9

\* ------------------------------------------------------ program constants
MAX_RETRIES == 3
MaxFailedTrades == 3
maxSystemErrors == 10
\* The heartbeat of MarketDataStream, in units of 5 s: checked every 10 s,
\* stale after more than 30 s.
HeartbeatEvery == 2
StaleAfter == 6

StrategyIds == 1..NStrategies
Handlers    == 1..MaxHandlers
PosIds      == 1..MaxPositions
Trips       == 1..MaxTrips
Passes      == 1..MaxPasses
Chains      == PosIds \X (1..MaxChains)

\* auth_code of a request and EMERGENCY_AUTH_CODE of the environment;
\* "undefined" is JavaScript's undefined (a body without auth_code, a
\* variable that is not set).
AuthCodes   == {"undefined", "wrong", "secret"}
AuthConfigs == {"undefined", "secret"}

\* What the parser can put in exit_conditions.stop_loss.value, and what a
\* request can carry as stop_loss_percent (0 stands for 0, missing and
\* negative alike: the code tests "!x || x <= 0").
SlValues   == {0, 2}
SlPercents == {0, 2}

\* exit_conditions as the parser returns them.
ParserExits == {[sl_type |-> "percentage", sl_value |-> v, is_trailing |-> TRUE,
                 tp_type |-> "percentage", tp_value |-> 5] : v \in SlValues}
NoExit     == [sl_type |-> "percentage", sl_value |-> 0, is_trailing |-> FALSE,
               tp_type |-> "percentage", tp_value |-> 0]
NoStrategy == [status |-> "none", stop_loss_percent |-> 0, exit |-> NoExit]
\* What technicalIndicators.calculateATR can give, in cents: it throws (here
\* a negative number) on fewer than 15 samples, and otherwise returns a
\* non-negative average of true ranges.
AtrOutcomes == {-1, 0, 100, 300}
\* A JavaScript number as parseFloat gives it: a finite value, NaN or Infinity.
num(v) == [kind |-> "num", v |-> v]
NaN == [kind |-> "nan", v |-> 0]
Infinity == [kind |-> "inf", v |-> 0]
Symbols == 1..NSymbols
Sockets == 1..MaxSockets
NoQuote == [symbol |-> 0, price |-> num(0), bid |-> num(0), ask |-> num(0)]
\* The assets of the feed; the instants the model keeps of the market of the
\* first one: now, half a timeframe ago, one timeframe ago (within a minute),
\* and longer ago.
Assets == {"BTC", "ETH"}
Slots == 0..3
TimeframeSlot == 2
NoTime == -1
NoCondition == [type |-> "none", primary_asset |-> "BTC", direction |-> "any", threshold |-> 0,
                required_assets |-> {}, target_asset |-> "BTC", triggers |-> <<>>,
                delay_days |-> 0]
\* The lists of triggers of the multi_asset_correlation conditions, and the
\* keys of triggerDelayTracking: the target asset and the assets of the
\* triggers in their order (the code joins them with "_").
TriggerLists == {<<[asset |-> "ETH", direction |-> "up"]>>,
                 <<[asset |-> "BTC", direction |-> "up"], [asset |-> "ETH", direction |-> "up"]>>}
assetsOf(triggers) == [i \in 1..Len(triggers) |-> triggers[i].asset]
delayKey(condition) == <<condition.target_asset, assetsOf(condition.triggers)>>
DelayKeys == {<<"BTC", assetsOf(triggers)>> : triggers \in TriggerLists}
NoTick == [n |-> 0, connected |-> FALSE, fresh |-> {}, evaluated |-> {}, signals |-> {}]
NoPriceData == [high |-> 0, low |-> 0, close |-> 0, age |-> "none"]
NoPosition == [strategy_id |-> 0, status |-> "none", entry_price |-> 0,
               current_price |-> 0, trailing_stop_price |-> 0, take_profit_price |-> 0]

VARIABLES
  \* StrategyManager
  strategies,        \* Map<string, ParsedStrategy>
  activeStrategies,  \* Set<string>
  store,             \* the execution index written by saveStrategy
  \* ConditionMonitor
  isMonitoring,
  monitoringInterval, \* whether the 5 s interval is set
  nListeners,         \* 'disconnected'/'connected' listener pairs registered on the feed
  \* CircuitBreaker
  isTripped,
  failedTrades,      \* length of the failed-trade window
  tripPc, tripNow, tripLeft,  \* each trip call in progress and the strategies it has still to pause
  tripCur,           \* whether that call was made since the last reset
  tripCalls, tripStops, tripLoops, tripAlerts, trippedEvents,
  \* entry-signal handlers, one per signal being processed
  hPc, hStrat, hObj, hOrder, hAttempt, hTrip,
  \* PortfolioMonitor and the price feed
  positions, price,
  \* MarketDataStream and the passes of ConditionMonitor
  isConnected,       \* MarketDataStream.isConnected
  dataFresh,         \* technicalIndicators.isDataFresh(asset, 10) of the assets in use
  passPc, passLeft,  \* each checkAllConditions in progress and the strategies it has still to check
  disconnectedSeen,  \* 'disconnected' has been emitted (no 'connected' is ever emitted after it)
  signalAfterDisconnect, \* an entry_signal has been emitted after that
  \* the order gateway, the position store, and the closePosition calls
  gatewayOk, storeOk,
  cPc, cAttempt, cEm, \* each closePosition chain; cEm: its promise is awaited by emergencyCloseAll
  closeAsked,        \* the positions for which closePosition has been called
  \* emergencyCloseAll and its route
  authConfig,        \* process.env.EMERGENCY_AUTH_CODE
  reqAuth, reqStatus, \* the last request to the route and what became of it
  emPc, emTotal, emFailures, emFailed, emSummaries,
  \* MarketDataStream: its sockets, reconnection and quote table
  sock,              \* every WebSocket whose handlers are still registered, by readyState
  ws,                \* this.ws: the socket of the last connect(), 0 before the first
  reconnectAttempts,
  reconnectTimers,   \* the setTimeout(connect) calls that have not fired yet
  lastDelay,         \* the delay, in seconds, of the setTimeout scheduled last
  heartbeatInterval, \* whether the 10 s heartbeat check is set
  emitting,          \* handleDisconnection is inside emit('disconnected')
  lastQuotes,        \* Map<string, MarketQuote>
  tick,              \* the ticker message processed last
  nHistory,          \* addPriceData calls made by the feed
  nQuoteEvents,      \* 'quote' events emitted
  lastHeartbeat,     \* Date.now() - this.lastHeartbeat, in units of 5 s
  sinceCheck,        \* the time since the heartbeat interval was set or fired, in units of 5 s
  \* the requests to StrategyManager
  approveError,      \* the message of the error the last approveStrategy threw, or "none"
  \* what validatePreTrade reads
  priceHistory,      \* the last PriceData of technicalIndicators.priceHistory, and its age
  dailyStartValue,   \* PortfolioMonitor.dailyStartValue
  realizedToday,     \* the profit or loss of the positions closed today, which no field keeps
  tradeError,        \* the message of the error the last executeTrade threw, or "none"
  \* CircuitBreaker.reset
  systemErrors,      \* Date[]: the system errors kept in the 5-minute window, counted
  resetLeft,         \* the flag and the windows as the last reset call left them
  consecutiveStops,  \* Map<string, number>: the stop-loss count of each strategy
  \* ConditionMonitor's conditions and what they read
  entry,             \* entry_conditions and required_assets of every strategy
  marketAt,          \* the market price of BTC now and half a timeframe, one and more ago
  sampled,           \* the instants of marketAt of which priceHistory holds a sample
  dataAge,           \* per asset: whether its latest sample is at most 10 s old
  today,             \* the date, in days
  triggerDelayTracking, \* Map<string, Date>
  tickSeen,          \* what the last checkAllConditions found and did
  \* PortfolioMonitor.checkPosition
  exitReason,        \* the reason the last checkPosition gave closePosition, or "none"
  \* NotificationService
  lastAlert,         \* how the last notification call ended, or "none"
  \* MarketDataStream.disconnect
  stopped            \* disconnect() was called, and neither initialize() nor connect() since

stratVars == <<strategies, activeStrategies, store>>
monVars   == <<isMonitoring, monitoringInterval, nListeners>>
cbVars    == <<isTripped, failedTrades, tripPc, tripNow, tripLeft, tripCur,
              tripCalls, tripStops, tripLoops, tripAlerts, trippedEvents>>
hVars     == <<hPc, hStrat, hObj, hOrder, hAttempt, hTrip>>
posVars   == <<positions, price>>
feedVars  == <<isConnected, dataFresh, passPc, passLeft, disconnectedSeen,
              signalAfterDisconnect>>
envVars   == <<gatewayOk, storeOk>>
closeVars == <<cPc, cAttempt, cEm, closeAsked>>
emVars    == <<authConfig, reqAuth, reqStatus, emPc, emTotal, emFailures, emFailed,
              emSummaries>>

wsVars    == <<sock, ws, reconnectAttempts, reconnectTimers, lastDelay, heartbeatInterval,
              emitting, lastQuotes, tick, nHistory, nQuoteEvents>>

hbVars    == <<lastHeartbeat, sinceCheck>>
ntVars    == <<lastAlert>>
stVars    == <<stopped>>
apiVars   == <<approveError>>
ptVars    == <<priceHistory, dailyStartValue, realizedToday, tradeError>>

rsVars    == <<systemErrors, resetLeft, consecutiveStops>>
pmVars    == <<exitReason>>
cmVars    == <<entry, marketAt, sampled, dataAge, today, triggerDelayTracking, tickSeen>>

vars == <<stratVars, monVars, cbVars, hVars, posVars, feedVars, envVars, closeVars, emVars,
          wsVars, apiVars, ptVars, rsVars, cmVars, pmVars, hbVars, ntVars, stVars>>

\* ------------------------------------------------------- pure functions
\* Number.toFixed(2) of n/d dollars-in-cents: the nearest cent, half up.
RoundDiv(n, d) == (2 * n + d) \div (2 * d)

\* TradeExecutor.calculateStopLoss for side 'buy'.
calculateStopLoss(entryPrice, exit, atr) ==
  CASE exit.sl_type = "percentage" -> RoundDiv(entryPrice * (100 - exit.sl_value), 100)
    [] exit.sl_type = "atr" ->
         IF atr < 0 THEN RoundDiv(entryPrice * 98, 100)
         ELSE entryPrice - atr * (IF exit.sl_value = 0 THEN 2 ELSE exit.sl_value)
    [] OTHER -> RoundDiv(entryPrice * 98, 100)

\* TradeExecutor.calculateTakeProfit for side 'buy'.
calculateTakeProfit(entryPrice, exit, atr) ==
  CASE exit.tp_type = "percentage" -> RoundDiv(entryPrice * (100 + exit.tp_value), 100)
    [] exit.tp_type = "atr" ->
         IF atr < 0 THEN RoundDiv(entryPrice * 105, 100)
         ELSE entryPrice + atr * (IF exit.tp_value = 0 THEN 3 ELSE exit.tp_value)
    [] OTHER -> RoundDiv(entryPrice * 105, 100)

\* PortfolioMonitor.getOpenPositions
getOpenPositions == {p \in PosIds : positions[p].status = "open"}

\* StrategyManager.getActiveStrategies: the ids of the active set that the map knows.
getActiveStrategies == {s \in activeStrategies : strategies[s].status # "none"}

\* ------------------------------------------------------- StrategyManager
\* pineconeService.saveStrategy: the metadata it writes holds the status and
\* the exit conditions, and no stop_loss_percent.
saveStrategy(s, strategy) ==
  store' = [store EXCEPT ![s] = [strategy EXCEPT !.stop_loss_percent = 0]]

\* loadStrategies: restore the active and paused strategies of the execution
\* index, then parse every favorite the map does not hold yet (newIds, with
\* the parser's result for each) and keep it as pending.
loadStrategies(newIds, parsed) ==
  LET restored == {s \in StrategyIds : store[s].status \in {"active", "paused"}}
      afterRestore == [s \in StrategyIds |->
                         IF s \in restored THEN store[s] ELSE strategies[s]]
  IN /\ newIds \subseteq {s \in StrategyIds : afterRestore[s].status = "none"}
     /\ strategies' = [s \in StrategyIds |->
                         IF s \in newIds
                         THEN [status |-> "pending", stop_loss_percent |-> 0, exit |-> parsed[s]]
                         ELSE afterRestore[s]]
     /\ activeStrategies' = activeStrategies \cup {s \in restored : store[s].status = "active"}
     /\ UNCHANGED <<store, monVars, cbVars, hVars, posVars, feedVars, envVars, wsVars, closeVars, emVars,
                    apiVars, ptVars, rsVars, cmVars, pmVars, hbVars, ntVars, stVars>>

\* approveStrategy(strategyId, modifications); saved tells whether
\* saveStrategy succeeded.  The strategy is looked up before the stop loss is
\* tested.
approveStrategy(s, slp, saved) ==
  /\ approveError' =
       IF strategies[s].status = "none" THEN "Strategy not found"
       ELSE IF slp <= 0 THEN "Stop loss is required and must be greater than 0"
       ELSE IF ~saved THEN "saveStrategy failed"
       ELSE "none"
  /\ LET approvedStrategy == [strategies[s] EXCEPT !.stop_loss_percent = slp, !.status = "active"]
     IN IF strategies[s].status # "none" /\ slp > 0 /\ saved
        THEN /\ saveStrategy(s, approvedStrategy)
             /\ strategies' = [strategies EXCEPT ![s] = approvedStrategy]
             /\ activeStrategies' = activeStrategies \cup {s}
        ELSE UNCHANGED stratVars
  /\ UNCHANGED <<monVars, cbVars, hVars, posVars, feedVars, envVars, wsVars, closeVars, emVars,
                 ptVars, rsVars, cmVars, pmVars, hbVars, ntVars, stVars>>

\* editStrategy keeps the status.
editStrategy(s, slp, saved) ==
  /\ strategies[s].status # "none"
  /\ slp > 0
  /\ LET updatedStrategy == [strategies[s] EXCEPT !.stop_loss_percent = slp]
     IN IF saved
        THEN /\ saveStrategy(s, updatedStrategy)
             /\ strategies' = [strategies EXCEPT ![s] = updatedStrategy]
        ELSE UNCHANGED <<strategies, store>>
  /\ UNCHANGED <<activeStrategies, monVars, cbVars, hVars, posVars, feedVars, envVars, wsVars, closeVars, emVars,
                 apiVars, ptVars, rsVars, cmVars, pmVars, hbVars, ntVars, stVars>>

\* pauseStrategy changes the map and the active set before it saves.
pauseStrategy(s, saved) ==
  /\ strategies[s].status # "none"
  /\ strategies' = [strategies EXCEPT ![s].status = "paused"]
  /\ activeStrategies' = activeStrategies \ {s}
  /\ IF saved THEN saveStrategy(s, strategies'[s]) ELSE UNCHANGED store
  /\ UNCHANGED <<monVars, cbVars, hVars, posVars, feedVars, envVars, wsVars, closeVars, emVars,
                 apiVars, ptVars, rsVars, cmVars, pmVars, hbVars, ntVars, stVars>>

\* resumeStrategy, likewise.
resumeStrategy(s, saved) ==
  /\ strategies[s].status # "none"
  /\ strategies' = [strategies EXCEPT ![s].status = "active"]
  /\ activeStrategies' = activeStrategies \cup {s}
  /\ IF saved THEN saveStrategy(s, strategies'[s]) ELSE UNCHANGED store
  /\ UNCHANGED <<monVars, cbVars, hVars, posVars, feedVars, envVars, wsVars, closeVars, emVars,
                 apiVars, ptVars, rsVars, cmVars, pmVars, hbVars, ntVars, stVars>>

\* reparseStrategy replaces the local copy by the parser's result, as pending.
reparseStrategy(s, exit) ==
  /\ strategies[s].status # "none"
  /\ strategies' = [strategies EXCEPT ![s] =
                      [status |-> "pending", stop_loss_percent |-> 0, exit |-> exit]]
  /\ UNCHANGED <<activeStrategies, store, monVars, cbVars, hVars, posVars, feedVars, envVars, wsVars, closeVars, emVars,
                 apiVars, ptVars, rsVars, cmVars, pmVars, hbVars, ntVars, stVars>>

\* ------------------------------------------------------ ConditionMonitor
Min(a, b) == IF a < b THEN a ELSE b

\* startMonitoring: every call that starts the interval registers one more
\* pair of listeners on the feed (counted up to MaxListeners).
startMonitoringEffect ==
  /\ isMonitoring' = TRUE
  /\ monitoringInterval' = TRUE
  /\ nListeners' = Min(nListeners + 1, MaxListeners)

\* stopMonitoring does nothing unless the interval is set.
stopMonitoringEffect ==
  /\ isMonitoring' = (IF monitoringInterval THEN FALSE ELSE isMonitoring)
  /\ monitoringInterval' = FALSE
  /\ UNCHANGED nListeners

\* POST /api/monitoring/start
startMonitoring ==
  /\ ~isMonitoring
  /\ startMonitoringEffect
  /\ UNCHANGED <<stratVars, cbVars, hVars, posVars, feedVars, envVars, wsVars, closeVars, emVars,
                 apiVars, ptVars, rsVars, cmVars, pmVars, hbVars, ntVars, stVars>>

\* POST /api/monitoring/stop
stopMonitoring ==
  /\ monitoringInterval
  /\ stopMonitoringEffect
  /\ UNCHANGED <<stratVars, cbVars, hVars, posVars, feedVars, envVars, wsVars, closeVars, emVars,
                 apiVars, ptVars, rsVars, cmVars, pmVars, hbVars, ntVars, stVars>>

\* ------------------------------------------------------- CircuitBreaker
NoOrder == [price |-> 0, stop |-> 0, target |-> 0]

\* A handler that returns keeps nothing; one that has thrown keeps, up to
\* its catch, only the strategy of its signal.
returned(H) ==
  /\ hPc' = [h \in Handlers |-> IF h \in H THEN "idle" ELSE hPc[h]]
  /\ hStrat' = [h \in Handlers |-> IF h \in H THEN 0 ELSE hStrat[h]]
  /\ hObj' = [h \in Handlers |-> IF h \in H THEN NoStrategy ELSE hObj[h]]
  /\ hOrder' = [h \in Handlers |-> IF h \in H THEN NoOrder ELSE hOrder[h]]
  /\ hAttempt' = [h \in Handlers |-> IF h \in H THEN 0 ELSE hAttempt[h]]
  /\ hTrip' = [h \in Handlers |-> IF h \in H THEN 0 ELSE hTrip[h]]

thrown(H) ==
  /\ hPc' = [h \in Handlers |-> IF h \in H THEN "catch" ELSE hPc[h]]
  /\ hObj' = [h \in Handlers |-> IF h \in H THEN NoStrategy ELSE hObj[h]]
  /\ hOrder' = [h \in Handlers |-> IF h \in H THEN NoOrder ELSE hOrder[h]]
  /\ hAttempt' = [h \in Handlers |-> IF h \in H THEN 0 ELSE hAttempt[h]]
  /\ hTrip' = [h \in Handlers |-> IF h \in H THEN 0 ELSE hTrip[h]]
  /\ UNCHANGED hStrat

awaiting(t) == {h \in Handlers : hPc[h] = "awaitTrip" /\ hTrip[h] = t}

\* What a trip call reads or writes before its first await.
tripTouched == <<isTripped, tripPc, tripNow, tripLeft, tripCur, tripCalls, tripStops,
                 tripLoops, tripAlerts, monVars, strategies, activeStrategies>>

idleTrips == {t \in Trips : tripPc[t] = "idle"}
freeTrip  == CHOOSE t \in idleTrips : \A u \in idleTrips : t <= u

\* The local part of pauseStrategy(s), before it awaits saveStrategy.
pauseSkipped(s) == UNCHANGED <<strategies, activeStrategies>>

pauseLocal(s) ==
  /\ strategies' = [strategies EXCEPT ![s].status = "paused"]
  /\ activeStrategies' = activeStrategies \ {s}

\* trip(reason, details) up to its first await: a no-op when tripped;
\* otherwise the flag, stopMonitoring, and either the first pauseStrategy
\* (up to its save) or, with no active strategy, the critical alert.
trip ==
  /\ tripCalls' = Min(tripCalls + 1, 2)
  /\ IF isTripped
     THEN UNCHANGED <<isTripped, tripPc, tripNow, tripLeft, tripCur, tripStops, tripLoops,
                      tripAlerts, monVars, strategies, activeStrategies>>
     ELSE /\ idleTrips # {}
          /\ isTripped' = TRUE
          /\ stopMonitoringEffect
          /\ tripStops' = tripStops + 1
          /\ tripLoops' = tripLoops + 1
          /\ tripCur' = [tripCur EXCEPT ![freeTrip] = TRUE]
          /\ IF getActiveStrategies = {}
             THEN /\ tripPc' = [tripPc EXCEPT ![freeTrip] = "alert"]
                  /\ tripAlerts' = tripAlerts + 1
                  /\ UNCHANGED <<tripNow, tripLeft, strategies, activeStrategies>>
             ELSE \E s \in getActiveStrategies :
                    /\ pauseLocal(s)
                    /\ tripPc' = [tripPc EXCEPT ![freeTrip] = "pausing"]
                    /\ tripNow' = [tripNow EXCEPT ![freeTrip] = s]
                    /\ tripLeft' = [tripLeft EXCEPT ![freeTrip] = getActiveStrategies \ {s}]
                    /\ UNCHANGED tripAlerts

\* The saveStrategy that trip call t awaits fails: pauseStrategy throws and
\* trip ends there, before the strategies left, the alert and the event.
tripPauseFailed(t) ==
  /\ tripPc[t] = "pausing"
  /\ tripPc' = [tripPc EXCEPT ![t] = "idle"]
  /\ tripNow' = [tripNow EXCEPT ![t] = 0]
  /\ tripLeft' = [tripLeft EXCEPT ![t] = {}]
  /\ tripCur' = [tripCur EXCEPT ![t] = FALSE]
  /\ thrown(awaiting(t))
  /\ UNCHANGED <<stratVars, monVars, isTripped, failedTrades,
                 tripCalls, tripStops, tripLoops, tripAlerts, trippedEvents,
                 posVars, feedVars, envVars, wsVars, closeVars, emVars, apiVars, ptVars, rsVars,
                 cmVars, pmVars, hbVars, ntVars, stVars>>

\* The saveStrategy that trip call t awaits succeeds: the loop goes on to
\* the next strategy of its snapshot or, after the last, to the alert.
tripPauseSaved(t) ==
  /\ tripPc[t] = "pausing"
  /\ store' = [store EXCEPT ![tripNow[t]] =
                 [strategies[tripNow[t]] EXCEPT !.stop_loss_percent = 0, !.status = "paused"]]
  /\ IF tripLeft[t] = {}
     THEN /\ tripPc' = [tripPc EXCEPT ![t] = "alert"]
          /\ tripAlerts' = (IF tripCur[t] THEN tripAlerts + 1 ELSE tripAlerts)
          /\ tripNow' = [tripNow EXCEPT ![t] = 0]
          /\ UNCHANGED <<strategies, activeStrategies, tripLeft>>
     ELSE \E s \in tripLeft[t] :
            /\ pauseLocal(s)
            /\ tripNow' = [tripNow EXCEPT ![t] = s]
            /\ tripLeft' = [tripLeft EXCEPT ![t] = tripLeft[t] \ {s}]
            /\ UNCHANGED <<tripPc, tripAlerts>>
  /\ UNCHANGED <<monVars, isTripped, failedTrades, tripCur, tripCalls, tripStops, tripLoops,
                 trippedEvents, hVars, posVars, feedVars, envVars, wsVars, closeVars, emVars,
                 apiVars, ptVars, rsVars, cmVars, pmVars, hbVars, ntVars, stVars>>

\* sendCriticalAlert has returned: trip emits 'tripped' and ends.
tripAlertedEffect(t) ==
  /\ tripPc[t] = "alert"
  /\ tripPc' = [tripPc EXCEPT ![t] = "idle"]
  /\ trippedEvents' = (IF tripCur[t] THEN trippedEvents + 1 ELSE trippedEvents)
  /\ tripCur' = [tripCur EXCEPT ![t] = FALSE]
  /\ returned(awaiting(t))
  /\ UNCHANGED <<stratVars, monVars, isTripped, failedTrades, tripNow, tripLeft,
                 tripCalls, tripStops, tripLoops, tripAlerts,
                 posVars, feedVars, envVars, wsVars, closeVars, emVars, apiVars, ptVars, rsVars,
                 cmVars, pmVars, hbVars, stVars>>

tripAlerted(t) == tripAlertedEffect(t) /\ UNCHANGED ntVars

\* The flag and the windows of the breaker.
breakerState ==
  [isTripped |-> isTripped, failedTrades |-> failedTrades, systemErrors |-> systemErrors]

\* A reset that would also restart ConditionMonitor.
resetAndStart ==
  /\ isTripped
  /\ isTripped' = FALSE
  /\ failedTrades' = 0
  /\ systemErrors' = 0
  /\ tripCur' = [t \in Trips |-> FALSE]
  /\ tripCalls' = 0 /\ tripStops' = 0 /\ tripLoops' = 0
  /\ tripAlerts' = 0 /\ trippedEvents' = 0
  /\ resetLeft' = breakerState'
  /\ consecutiveStops' = [s \in StrategyIds |-> 0]
  /\ startMonitoringEffect
  /\ UNCHANGED <<stratVars, tripPc, tripNow, tripLeft, hVars, posVars, feedVars,
                 envVars, wsVars, closeVars, emVars, apiVars, ptVars, cmVars, pmVars, hbVars,
                 ntVars, stVars>>

\* reset(authority): returns at once unless tripped; otherwise clears the
\* flag and the windows, starts a new count of trip calls and of their side
\* effects, and sends its alert.
reset ==
  /\ IF ~isTripped
     THEN UNCHANGED <<isTripped, failedTrades, systemErrors, tripCur, tripCalls, tripStops,
                      tripLoops, tripAlerts, trippedEvents, consecutiveStops>>
     ELSE /\ isTripped' = FALSE
          /\ failedTrades' = 0
          /\ systemErrors' = 0
          /\ consecutiveStops' = [s \in StrategyIds |-> 0]
          /\ tripCur' = [t \in Trips |-> FALSE]
          /\ tripCalls' = 0 /\ tripStops' = 0 /\ tripLoops' = 0
          /\ tripAlerts' = 0 /\ trippedEvents' = 0
  /\ resetLeft' = breakerState'
  /\ UNCHANGED <<stratVars, monVars, tripPc, tripNow, tripLeft, hVars, posVars, feedVars,
                 envVars, wsVars, closeVars, emVars, apiVars, ptVars, cmVars, pmVars, hbVars,
                 ntVars, stVars>>

\* A recorder that would never drop an entry.
recordWithoutWindow(kept) ==
  /\ failedTrades' = failedTrades + 1
  /\ IF failedTrades + 1 >= MaxFailedTrades THEN trip ELSE UNCHANGED tripTouched

\* recordFailedTrade: entries older than an hour are dropped (kept remain),
\* the new one is added, and at maxFailedTrades it calls trip without awaiting it.
recordFailedTrade(kept) ==
  /\ failedTrades' = kept + 1
  /\ IF kept + 1 >= MaxFailedTrades THEN trip ELSE UNCHANGED tripTouched

\* ------------------------------------- entry-signal handler, TradeExecutor
idleHandlers == {h \in Handlers : hPc[h] = "idle"}
\* A Position is named by its place in the map; a place is taken while it
\* holds a Position or a closePosition call still holds the one it held.
usedPositions == {p \in PosIds : \/ positions[p].status # "none"
                                 \/ \E k \in 1..MaxChains : cPc[<<p, k>>] # "free"}
freePosition == CHOOSE p \in PosIds \ usedPositions : \A q \in PosIds \ usedPositions : p <= q

\* ConditionMonitor emits entry_signal for the active strategy s on a tick,
\* and the listener of initializeServices runs up to its first await: it
\* returns at once when the breaker is tripped, and otherwise calls
\* checkDailyLoss.  It holds the strategy object of the signal from then on.
entrySignal(h, s) ==
  /\ isMonitoring /\ monitoringInterval
  /\ s \in getActiveStrategies
  /\ h \in idleHandlers /\ \A g \in idleHandlers : h <= g
  /\ Cardinality(usedPositions) + Cardinality(Handlers \ idleHandlers) < MaxPositions
  /\ ~isTripped
  /\ hPc' = [hPc EXCEPT ![h] = "dailyLoss"]
  /\ hStrat' = [hStrat EXCEPT ![h] = s]
  /\ hObj' = [hObj EXCEPT ![h] = strategies[s]]
  /\ hOrder' = [hOrder EXCEPT ![h] = NoOrder]
  /\ hAttempt' = [hAttempt EXCEPT ![h] = 0]
  /\ UNCHANGED <<hTrip, stratVars, monVars, cbVars, posVars, feedVars, envVars, wsVars, closeVars, emVars,
                 apiVars, ptVars, rsVars, cmVars, pmVars, hbVars, ntVars, stVars>>

\* checkDailyLoss has its portfolio: within the limits the handler goes on
\* (logTradeDecision, then executeTrade); beyond them it awaits trip and returns.
dailyLossChecked(h, exceeded) ==
  /\ hPc[h] = "dailyLoss"
  /\ IF exceeded
     THEN /\ trip
          /\ IF isTripped
             THEN returned({h})
             ELSE /\ hPc' = [hPc EXCEPT ![h] = "awaitTrip"]
                  /\ hTrip' = [hTrip EXCEPT ![h] = freeTrip]
                  /\ UNCHANGED <<hStrat, hObj, hOrder, hAttempt>>
     ELSE /\ hPc' = [hPc EXCEPT ![h] = "exec"]
          /\ UNCHANGED <<hStrat, hObj, hOrder, hAttempt, hTrip, tripTouched>>
  /\ UNCHANGED <<store, failedTrades, trippedEvents, posVars, feedVars, envVars, wsVars, closeVars, emVars,
                 apiVars, ptVars, rsVars, cmVars, pmVars, hbVars, ntVars, stVars>>

\* getPortfolio or logTradeDecision throws: the handler's catch is next.
handlerThrows(h) ==
  /\ hPc[h] = "dailyLoss"
  /\ thrown({h})
  /\ UNCHANGED <<stratVars, monVars, cbVars, posVars, feedVars, envVars, wsVars, closeVars, emVars,
                 apiVars, ptVars, rsVars, cmVars, pmVars, hbVars, ntVars, stVars>>

\* validatePreTrade on the strategy object of the signal; dataOk stands for
\* fresh data, a narrow spread and a daily P&L above the floor.
validatePreTrade(strategy, s, dataOk) ==
  /\ strategy.stop_loss_percent > 0
  /\ dataOk
  /\ \A p \in getOpenPositions : positions[p].strategy_id # s

\* An executeTrade whose validation would return instead of throwing.
executeTradeQuietly(h, dataOk, atr) ==
  /\ hPc[h] = "exec"
  /\ IF validatePreTrade(hObj[h], hStrat[h], dataOk) /\ price > 0
     THEN /\ hPc' = [hPc EXCEPT ![h] = "order"]
          /\ hAttempt' = [hAttempt EXCEPT ![h] = 1]
          /\ hOrder' = [hOrder EXCEPT ![h] =
                          [price |-> price,
                           stop |-> calculateStopLoss(price, hObj[h].exit, atr),
                           target |-> calculateTakeProfit(price, hObj[h].exit, atr)]]
          /\ UNCHANGED <<hStrat, hObj, hTrip>>
     ELSE returned({h})
  /\ UNCHANGED <<stratVars, monVars, cbVars, posVars, feedVars, envVars, wsVars, closeVars, emVars,
                 apiVars, ptVars, rsVars, cmVars, pmVars, hbVars, ntVars, stVars>>

\* executeTrade up to the first submission of the order: validation, the
\* current price, stop and target (their awaits wait for nothing outside),
\* and the first axios.post.  A failure goes to the alert and is thrown to
\* the handler.
executeTrade(h, dataOk, atr) ==
  /\ hPc[h] = "exec"
  /\ IF validatePreTrade(hObj[h], hStrat[h], dataOk) /\ price > 0
     THEN /\ hPc' = [hPc EXCEPT ![h] = "order"]
          /\ hAttempt' = [hAttempt EXCEPT ![h] = 1]
          /\ hOrder' = [hOrder EXCEPT ![h] =
                          [price |-> price,
                           stop |-> calculateStopLoss(price, hObj[h].exit, atr),
                           target |-> calculateTakeProfit(price, hObj[h].exit, atr)]]
          /\ UNCHANGED <<hStrat, hObj, hTrip>>
     ELSE thrown({h})
  /\ UNCHANGED <<stratVars, monVars, cbVars, posVars, feedVars, envVars, wsVars, closeVars, emVars,
                 apiVars, ptVars, rsVars, cmVars, pmVars, hbVars, ntVars, stVars>>

\* executeWithRetries: the answer to attempt hAttempt[h].  A success ends
\* the loop (savePosition is next); a thrown error or a timeout waits
\* RETRY_DELAY * attempt before the next attempt; a response that is not a
\* success goes to the next attempt at once; after MAX_RETRIES it throws.
orderAnswered(h, answer) ==
  /\ hPc[h] = "order"
  /\ CASE answer = "success" ->
            /\ hPc' = [hPc EXCEPT ![h] = "save"]
            /\ UNCHANGED <<hStrat, hObj, hOrder, hAttempt, hTrip>>
       [] answer = "error" /\ hAttempt[h] < MAX_RETRIES ->
            /\ hPc' = [hPc EXCEPT ![h] = "delay"]
            /\ UNCHANGED <<hStrat, hObj, hOrder, hAttempt, hTrip>>
       [] answer = "rejected" /\ hAttempt[h] < MAX_RETRIES ->
            /\ hAttempt' = [hAttempt EXCEPT ![h] = hAttempt[h] + 1]
            /\ UNCHANGED <<hPc, hStrat, hObj, hOrder, hTrip>>
       [] OTHER -> thrown({h})
  /\ UNCHANGED <<stratVars, monVars, cbVars, posVars, feedVars, envVars, wsVars, closeVars, emVars,
                 apiVars, ptVars, rsVars, cmVars, pmVars, hbVars, ntVars, stVars>>

\* The retry delay is over: the next attempt is submitted.
retryDelayOver(h) ==
  /\ hPc[h] = "delay"
  /\ hPc' = [hPc EXCEPT ![h] = "order"]
  /\ hAttempt' = [hAttempt EXCEPT ![h] = hAttempt[h] + 1]
  /\ UNCHANGED <<hStrat, hObj, hOrder, hTrip, stratVars, monVars, cbVars, posVars, feedVars, envVars, wsVars, closeVars, emVars,
                 apiVars, ptVars, rsVars, cmVars, pmVars, hbVars, ntVars, stVars>>

\* PortfolioMonitor.addPosition
addPosition(p, position) ==
  positions' = [positions EXCEPT ![p] = position]

\* savePosition has answered: on success the Position is added to the
\* monitor (the notifications that follow change nothing); on failure
\* executeTrade throws with the order filled and no Position kept.
positionSaved(h, saved) ==
  /\ hPc[h] = "save"
  /\ IF saved
     THEN /\ addPosition(freePosition,
                         [strategy_id |-> hStrat[h], status |-> "open",
                          entry_price |-> hOrder[h].price, current_price |-> hOrder[h].price,
                          trailing_stop_price |-> hOrder[h].stop,
                          take_profit_price |-> hOrder[h].target])
          /\ returned({h})
     ELSE /\ thrown({h})
          /\ UNCHANGED positions
  /\ UNCHANGED <<price, stratVars, monVars, cbVars, feedVars, envVars, wsVars, closeVars, emVars,
                 apiVars, ptVars, rsVars, cmVars, pmVars, hbVars, ntVars, stVars>>

\* The catch of the handler: recordFailedTrade.
handlerCatch(h, kept) ==
  /\ hPc[h] = "catch"
  /\ kept \in 0..failedTrades
  /\ recordFailedTrade(kept)
  /\ returned({h})
  /\ UNCHANGED <<store, trippedEvents, posVars, feedVars, envVars, wsVars, closeVars, emVars,
                 apiVars, ptVars, rsVars, cmVars, pmVars, hbVars, ntVars, stVars>>

\* --------------------------------------------------- initial states
InitStrategies ==
  /\ approveError = "none"
  /\ strategies = [s \in StrategyIds |-> NoStrategy]
  /\ activeStrategies = {}
  /\ store = [s \in StrategyIds |-> NoStrategy]

InitMonitor ==
  /\ isMonitoring = FALSE
  /\ monitoringInterval = FALSE
  /\ nListeners = 0

InitBreaker ==
  /\ isTripped = FALSE
  /\ failedTrades = 0
  /\ tripPc = [t \in Trips |-> "idle"]
  /\ tripNow = [t \in Trips |-> 0]
  /\ tripLeft = [t \in Trips |-> {}]
  /\ tripCur = [t \in Trips |-> FALSE]
  /\ tripCalls = 0 /\ tripStops = 0 /\ tripLoops = 0
  /\ tripAlerts = 0 /\ trippedEvents = 0
  /\ systemErrors = 0
  /\ resetLeft = breakerState
  /\ consecutiveStops = [s \in StrategyIds |-> 0]

InitHandlers ==
  /\ hPc = [h \in Handlers |-> "idle"]
  /\ hStrat = [h \in Handlers |-> 0]
  /\ hObj = [h \in Handlers |-> NoStrategy]
  /\ hOrder = [h \in Handlers |-> NoOrder]
  /\ hAttempt = [h \in Handlers |-> 0]
  /\ hTrip = [h \in Handlers |-> 0]

InitPositions ==
  /\ positions = [p \in PosIds |-> NoPosition]
  /\ price = 10000

\* Outside the specification of the pre-trade validation the day has begun
\* with nothing to count.
InitPreTrade ==
  /\ priceHistory = NoPriceData
  /\ dailyStartValue = 0
  /\ realizedToday = 0
  /\ tradeError = "none"

InitFeed ==
  /\ isConnected = TRUE
  /\ dataFresh = TRUE
  /\ passPc = [q \in Passes |-> "idle"]
  /\ passLeft = [q \in Passes |-> {}]
  /\ disconnectedSeen = FALSE
  /\ signalAfterDisconnect = FALSE

\* MarketDataStream after construction, before connect().
InitWs ==
  /\ sock = [k \in Sockets |-> "none"]
  /\ ws = 0
  /\ reconnectAttempts = 0
  /\ reconnectTimers = 0
  /\ lastDelay = 0
  /\ heartbeatInterval = FALSE
  /\ emitting = FALSE
  /\ lastQuotes = [a \in Symbols |-> NoQuote]
  /\ tick = NoQuote
  /\ nHistory = 0
  /\ nQuoteEvents = 0
  /\ lastHeartbeat = 0
  /\ sinceCheck = 0
  /\ stopped = FALSE

InitClose ==
  /\ gatewayOk = TRUE /\ storeOk = TRUE
  /\ cPc = [c \in Chains |-> "free"]
  /\ cAttempt = [c \in Chains |-> 0]
  /\ cEm = [c \in Chains |-> FALSE]
  /\ closeAsked = {}

InitEmergency ==
  /\ reqAuth = "none" /\ reqStatus = "none"
  /\ emPc = "idle"
  /\ emTotal = 0 /\ emFailures = 0 /\ emFailed = 0 /\ emSummaries = 0

\* Outside the specification of the emergency route the secret is configured.
InitOther == InitFeed /\ InitWs /\ InitPreTrade /\ InitClose /\ InitEmergency /\ authConfig = "secret"

\* No strategy with a condition the monitor could evaluate, no price history.
InitConditions ==
  /\ entry = [s \in StrategyIds |-> NoCondition]
  /\ marketAt = [k \in Slots |-> 100]
  /\ sampled = {}
  /\ dataAge = [a \in Assets |-> "none"]
  /\ today = 0
  /\ triggerDelayTracking = [key \in DelayKeys |-> NoTime]
  /\ tickSeen = NoTick
  /\ exitReason = "none"
  /\ lastAlert = "none"

InitRest == InitOther /\ InitConditions

\* ------------------------------------------- StrategyManager and entries
\* executeTrade for a signal of the active strategy s, taken as one step
\* (its interleavings are the subject of Spec): after validatePreTrade the
\* order is filled, the Position saved and added.
enterPositionEffect(s, atr) ==
  /\ s \in getActiveStrategies
  /\ validatePreTrade(strategies[s], s, TRUE)
  /\ price > 0
  /\ usedPositions # PosIds
  /\ addPosition(freePosition,
                 [strategy_id |-> s, status |-> "open",
                  entry_price |-> price, current_price |-> price,
                  trailing_stop_price |-> calculateStopLoss(price, strategies[s].exit, atr),
                  take_profit_price |-> calculateTakeProfit(price, strategies[s].exit, atr)])
  /\ UNCHANGED <<price, stratVars, monVars, cbVars, hVars, feedVars, envVars, wsVars, closeVars, emVars,
                 apiVars, ptVars, rsVars, cmVars, pmVars, hbVars, stVars>>

enterPosition(s, atr) == enterPositionEffect(s, atr) /\ UNCHANGED ntVars

\* PortfolioMonitor.closePosition(positionId), at the end of a close.
removePosition(p) ==
  /\ positions[p].status # "none"
  /\ positions' = [positions EXCEPT ![p] = NoPosition]
  /\ UNCHANGED <<price, stratVars, monVars, cbVars, hVars, feedVars, envVars, wsVars, closeVars, emVars,
                 apiVars, ptVars, rsVars, cmVars, pmVars, hbVars, ntVars, stVars>>

InitStrat ==
  /\ InitStrategies /\ InitMonitor /\ InitBreaker /\ InitHandlers /\ InitPositions
  /\ InitRest

NextStrat ==
  \/ \E newIds \in SUBSET StrategyIds, parsed \in [StrategyIds -> ParserExits] :
       loadStrategies(newIds, parsed)
  \/ \E s \in StrategyIds, slp \in SlPercents \ {0}, saved \in BOOLEAN :
       strategies[s].status # "none" /\ approveStrategy(s, slp, saved)
  \/ \E s \in StrategyIds, slp \in SlPercents, saved \in BOOLEAN : editStrategy(s, slp, saved)
  \/ \E s \in StrategyIds, saved \in BOOLEAN : pauseStrategy(s, saved)
  \/ \E s \in StrategyIds, saved \in BOOLEAN : resumeStrategy(s, saved)
  \/ \E s \in StrategyIds, exit \in ParserExits : reparseStrategy(s, exit)
  \/ \E s \in StrategyIds, atr \in AtrOutcomes : enterPosition(s, atr)
  \/ \E p \in PosIds : removePosition(p)

SpecStrat == InitStrat /\ [][NextStrat]_vars

\* C2: a strategy whose exit_conditions.stop_loss.value is 0 never has
\* status active, and executeTrade never fills a Position for it.
C2_ZeroStopNeverActiveNorFilled ==
  /\ [](\A s \in StrategyIds :
         strategies[s].status = "active" => strategies[s].exit.sl_value > 0)
  /\ [][\A p \in PosIds :
         positions[p].status = "none" /\ positions'[p].status = "open"
           => strategies[positions'[p].strategy_id].exit.sl_value > 0]_vars

\* --------------------------------------------------- the trading loop
\* One strategy has been parsed and approved, with a stop_loss_percent
\* above 0, and saved; monitoring has not been started.
approvedStrategy(exit) == [status |-> "active", stop_loss_percent |-> 2, exit |-> exit]

InitApproved(S, exits) ==
  /\ \E exit \in exits :
       /\ strategies = [s \in StrategyIds |-> IF s \in S THEN approvedStrategy(exit) ELSE NoStrategy]
       /\ store = [s \in StrategyIds |->
                     IF s \in S THEN [approvedStrategy(exit) EXCEPT !.stop_loss_percent = 0]
                     ELSE NoStrategy]
  /\ activeStrategies = S
  /\ approveError = "none"

Init ==
  /\ InitApproved({1}, ParserExits)
  /\ InitMonitor /\ InitBreaker /\ InitHandlers /\ InitPositions /\ InitRest

Next ==
  \/ \E s \in StrategyIds, saved \in BOOLEAN : pauseStrategy(s, saved)
  \/ \E s \in StrategyIds, saved \in BOOLEAN : resumeStrategy(s, saved)
  \/ startMonitoring
  \/ stopMonitoring
  \/ \E h \in Handlers, s \in StrategyIds : entrySignal(h, s)
  \/ \E h \in Handlers, exceeded \in BOOLEAN : dailyLossChecked(h, exceeded)
  \/ \E h \in Handlers : handlerThrows(h)
  \/ \E h \in Handlers, dataOk \in BOOLEAN, atr \in AtrOutcomes : executeTrade(h, dataOk, atr)
  \/ \E h \in Handlers, answer \in {"success", "error", "rejected"} : orderAnswered(h, answer)
  \/ \E h \in Handlers : retryDelayOver(h)
  \/ \E h \in Handlers, saved \in BOOLEAN : positionSaved(h, saved)
  \/ \E h \in Handlers, kept \in 0..MaxFailedTrades : handlerCatch(h, kept)
  \/ \E t \in Trips : tripPauseFailed(t)
  \/ \E t \in Trips : tripPauseSaved(t)
  \/ \E t \in Trips : tripAlerted(t)
  \/ isTripped /\ reset

Spec == Init /\ [][Next]_vars

\* C1: at any time there is at most one open Position per strategy.
C1_OneOpenPositionPerStrategy ==
  \A s \in StrategyIds :
    Cardinality({p \in getOpenPositions : positions[p].strategy_id = s}) <= 1

\* C3: no entry order's first submission to the order gateway happens
\* while the circuit breaker is tripped.
C3_NoFirstSubmissionWhileTripped ==
  [][\A h \in Handlers : hPc[h] = "exec" /\ hPc'[h] = "order" => ~isTripped]_vars

\* C10: between two resets the halt side effects of trip (stopping
\* ConditionMonitor, the pause loop, the critical alert, the 'tripped'
\* event) are performed exactly once: never twice, and all of them once
\* the trip call has ended.
C10_TripSideEffectsOnce ==
  /\ tripStops <= 1 /\ tripLoops <= 1 /\ tripAlerts <= 1 /\ trippedEvents <= 1
  /\ (isTripped /\ \A t \in Trips : tripPc[t] = "idle")
       => (tripStops = 1 /\ tripLoops = 1 /\ tripAlerts = 1 /\ trippedEvents = 1)

\* ------------------------------------------------- PortfolioMonitor ticks
\* The exit conditions of the strategy of the open position: each kind of
\* stop, trailing or not.
TrailingExits == {[sl_type |-> t, sl_value |-> 2, is_trailing |-> b,
                   tp_type |-> "percentage", tp_value |-> 5] :
                    t \in {"percentage", "atr", "fixed"}, b \in BOOLEAN}

\* The last close of the price history, in cents; 0 stands for no price.
TickPrices == {0, 9800, 10000, 10200, 10400}

\* PortfolioMonitor.calculateTrailingStop
calculateTrailingStop(currentPrice, exit, atr) ==
  CASE exit.sl_type = "percentage" -> RoundDiv(currentPrice * (100 - exit.sl_value), 100)
    [] exit.sl_type = "atr" ->
         IF atr < 0 THEN RoundDiv(currentPrice * 98, 100)
         ELSE currentPrice - atr * exit.sl_value
    [] OTHER -> RoundDiv(currentPrice * 98, 100)

\* A guard that takes any stop that differs from the stored one.
ratchetsAnyChange(newStopPrice, stopPrice) == newStopPrice # stopPrice

\* The guard of the update in checkPosition.
ratchets(newStopPrice, stopPrice) == newStopPrice > stopPrice

\* A quote arrives: the price history has a new close (or, at 0, none).
priceTick(newPrice) ==
  /\ newPrice # price
  /\ price' = newPrice
  /\ UNCHANGED <<positions, stratVars, monVars, cbVars, hVars, feedVars, envVars, wsVars, closeVars,
                 emVars, apiVars, ptVars, rsVars, cmVars, pmVars, hbVars, ntVars, stVars>>

\* The stop of the open position p once checkPosition has updated it.
stopAfterUpdate(p, atr) ==
  LET position == positions[p]
      strategy == strategies[position.strategy_id]
      newStopPrice == calculateTrailingStop(price, strategy.exit, atr)
  IN  IF /\ price > position.entry_price
         /\ strategy.status # "none"
         /\ strategy.exit.is_trailing
         /\ ratchets(newStopPrice, position.trailing_stop_price)
      THEN newStopPrice ELSE position.trailing_stop_price

\* The exit checks of checkPosition in their order: each one that holds
\* overwrites the reason of the one before.
exitReasonOf(stopHit, targetHit, expired) ==
  IF expired THEN "Max hold period exceeded"
  ELSE IF targetHit THEN "Take profit triggered"
  ELSE IF stopHit THEN "Stop loss triggered"
  ELSE "none"

\* checkPosition of the open position p on a tick of PortfolioMonitor, with
\* the closePosition it may call taken as one step (closes: it succeeded).
\* Without a current price it returns at once; a savePosition that fails
\* after the stop was raised ends the check there.
checkPosition(p, atr, saved, expired, closes) ==
  /\ positions[p].status = "open"
  /\ LET position == positions[p]
         strategy == strategies[position.strategy_id]
         stopPrice == stopAfterUpdate(p, atr)
         raised == stopPrice # position.trailing_stop_price
         reason == exitReasonOf(price <= stopPrice, price >= position.take_profit_price,
                                strategy.status # "none" /\ expired)
     IN IF price = 0
        THEN /\ UNCHANGED positions
             /\ exitReason' = "none"
        ELSE IF raised /\ ~saved
        THEN /\ positions' = [positions EXCEPT ![p].current_price = price,
                                               ![p].trailing_stop_price = stopPrice]
             /\ exitReason' = "none"
        ELSE /\ exitReason' = reason
             /\ IF reason # "none" /\ closes
                THEN positions' = [positions EXCEPT ![p] = NoPosition]
                ELSE positions' = [positions EXCEPT ![p].current_price = price,
                                                   ![p].trailing_stop_price = stopPrice]
  /\ UNCHANGED <<price, stratVars, monVars, cbVars, hVars, feedVars, envVars, wsVars, closeVars, emVars,
                 apiVars, ptVars, rsVars, cmVars, hbVars, ntVars, stVars>>

InitTrail ==
  /\ InitApproved({1}, TrailingExits)
  /\ InitMonitor /\ InitBreaker /\ InitHandlers /\ InitPositions /\ InitRest

NextTrail ==
  \/ \E newPrice \in TickPrices : priceTick(newPrice)
  \/ \E s \in StrategyIds, atr \in AtrOutcomes : enterPosition(s, atr)
  \/ \E p \in PosIds, atr \in AtrOutcomes, saved, expired, closes \in BOOLEAN :
       checkPosition(p, atr, saved, expired, closes)

SpecTrail == InitTrail /\ [][NextTrail]_vars

\* C9: the trailing_stop_price of an open long position never decreases,
\* whatever the sequence of position ticks and price changes.
C9_TrailingStopNeverDecreases ==
  [][\A p \in PosIds :
       positions[p].status = "open" /\ positions'[p].status = "open"
         => positions'[p].trailing_stop_price >= positions[p].trailing_stop_price]_vars

\* C9, its case: an open position above its entry price whose stop was
\* raised on an earlier tick and for which the last tick computed a lower one.
C9_Witness ==
  \E p \in PosIds :
    /\ positions[p].status = "open"
    /\ positions[p].current_price > positions[p].entry_price
    /\ strategies[positions[p].strategy_id].exit.is_trailing
    /\ strategies[positions[p].strategy_id].exit.sl_type = "percentage"
    /\ positions[p].trailing_stop_price >
         calculateStopLoss(positions[p].entry_price, strategies[positions[p].strategy_id].exit, 0)
    /\ calculateTrailingStop(positions[p].current_price,
                             strategies[positions[p].strategy_id].exit, 0)
         < positions[p].trailing_stop_price

\* ------------------------------------- MarketDataStream, ConditionMonitor
\* MarketDataStream.handleDisconnection: the flag, then 'disconnected' to
\* the listeners ConditionMonitor has registered, each of which runs
\* handleMarketDisconnection, that is stopMonitoring.  The price history of
\* technicalIndicators is left as it is.
feedDisconnects ==
  /\ isConnected
  /\ isConnected' = FALSE
  /\ disconnectedSeen' = TRUE
  /\ IF nListeners > 0 THEN stopMonitoringEffect ELSE UNCHANGED monVars
  /\ UNCHANGED <<dataFresh, passPc, passLeft, signalAfterDisconnect,
                 stratVars, cbVars, hVars, posVars, envVars, wsVars, closeVars, emVars, apiVars,
                 ptVars, rsVars, cmVars, pmVars, hbVars, ntVars, stVars>>

\* The reconnection timer's connect() succeeds: the 'open' handler sets the
\* flag and tells the browser clients; it emits nothing to the listeners
\* inside the process.
feedConnects ==
  /\ ~isConnected
  /\ isConnected' = TRUE
  /\ UNCHANGED <<dataFresh, passPc, passLeft, disconnectedSeen, signalAfterDisconnect,
                 stratVars, monVars, cbVars, hVars, posVars, envVars, wsVars, closeVars, emVars,
                 apiVars, ptVars, rsVars, cmVars, pmVars, hbVars, ntVars, stVars>>

\* A valid quote arrives and is added to the price history.
quoteArrives ==
  /\ isConnected
  /\ ~dataFresh
  /\ dataFresh' = TRUE
  /\ UNCHANGED <<isConnected, passPc, passLeft, disconnectedSeen, signalAfterDisconnect,
                 stratVars, monVars, cbVars, hVars, posVars, envVars, wsVars, closeVars, emVars,
                 apiVars, ptVars, rsVars, cmVars, pmVars, hbVars, ntVars, stVars>>

\* Ten seconds go by without a quote: isDataFresh(asset, 10) is false.
dataAges ==
  /\ dataFresh
  /\ dataFresh' = FALSE
  /\ UNCHANGED <<isConnected, passPc, passLeft, disconnectedSeen, signalAfterDisconnect,
                 stratVars, monVars, cbVars, hVars, posVars, envVars, wsVars, closeVars, emVars,
                 apiVars, ptVars, rsVars, cmVars, pmVars, hbVars, ntVars, stVars>>

idlePasses == {q \in Passes : passPc[q] = "idle"}

\* The loop of checkAllConditions over the strategies `left` of its
\* snapshot, from one await that waits for something outside to the next:
\* the strategies `checked` are gone through (checkStrategyConditions skips
\* one whose data is stale, else evaluates it and, when `met`, emits
\* entry_signal; what the listener of the signal does is the subject of
\* Spec), then either the loop is over or the evaluation of one more
\* strategy is waiting for a quote it fetches (getCurrentPriceAsync).
passRuns(q, left, checked, met, fetching) ==
  /\ checked \subseteq left
  /\ fetching \subseteq left \ checked
  /\ Cardinality(fetching) <= 1
  /\ fetching = {} => checked = left
  /\ met \subseteq checked
  /\ signalAfterDisconnect' =
       (signalAfterDisconnect \/ (met # {} /\ dataFresh /\ disconnectedSeen))
  /\ passPc' = [passPc EXCEPT ![q] = IF fetching = {} THEN "idle" ELSE "fetch"]
  /\ passLeft' = [passLeft EXCEPT ![q] = IF fetching = {} THEN {} ELSE left \ (checked \cup fetching)]

\* The 5 s interval of startMonitoring fires: checkAllConditions returns at
\* once when the feed is not connected, and else starts its loop.
conditionTick(checked, met, fetching) ==
  /\ monitoringInterval
  /\ idlePasses # {}
  /\ IF isConnected
     THEN passRuns(CHOOSE q \in idlePasses : \A r \in idlePasses : q <= r,
                   getActiveStrategies, checked, met, fetching)
     ELSE /\ checked = {} /\ met = {} /\ fetching = {}
          /\ UNCHANGED <<passPc, passLeft, signalAfterDisconnect>>
  /\ UNCHANGED <<isConnected, dataFresh, disconnectedSeen,
                 stratVars, monVars, cbVars, hVars, posVars, envVars, wsVars, closeVars, emVars,
                 apiVars, ptVars, rsVars, cmVars, pmVars, hbVars, ntVars, stVars>>

\* The quote a pass was waiting for has come (or failed to): the loop goes on.
passResumes(q, checked, met, fetching) ==
  /\ passPc[q] = "fetch"
  /\ passRuns(q, passLeft[q], checked, met, fetching)
  /\ UNCHANGED <<isConnected, dataFresh, disconnectedSeen,
                 stratVars, monVars, cbVars, hVars, posVars, envVars, wsVars, closeVars, emVars,
                 apiVars, ptVars, rsVars, cmVars, pmVars, hbVars, ntVars, stVars>>

InitMon ==
  /\ InitApproved(StrategyIds, {e \in ParserExits : e.sl_value > 0})
  /\ InitMonitor /\ InitBreaker /\ InitHandlers /\ InitPositions /\ InitRest

NextMon ==
  \/ startMonitoring
  \/ stopMonitoring
  \/ feedDisconnects
  \/ feedConnects
  \/ quoteArrives
  \/ dataAges
  \/ \E checked, met, fetching \in SUBSET StrategyIds : conditionTick(checked, met, fetching)
  \/ \E q \in Passes, checked, met, fetching \in SUBSET StrategyIds :
       passResumes(q, checked, met, fetching)

SpecMon == InitMon /\ [][NextMon]_vars

\* C4: once MarketDataStream has emitted 'disconnected', ConditionMonitor
\* emits no entry_signal before the next 'connected' event and the 10 s
\* after it; the feed emits no 'connected' event, so none at all.
C4_NoSignalAfterDisconnected == ~signalAfterDisconnect

\* ------------------------------------------ TradeExecutor.closePosition
\* The current price, or 0 for none.
ClosePrices == {0, 10000}

\* The order gateway or the position store starts or stops answering well.
environmentChanges(gateway, saves) ==
  /\ <<gateway, saves>> # <<gatewayOk, storeOk>>
  /\ gatewayOk' = gateway
  /\ storeOk' = saves
  /\ UNCHANGED <<stratVars, monVars, cbVars, hVars, posVars, feedVars, closeVars, emVars,
                 wsVars, apiVars, ptVars, rsVars, cmVars, pmVars, hbVars, ntVars, stVars>>

freeChains(p) == {k \in 1..MaxChains : cPc[<<p, k>>] = "free"}
freeChain(p) == <<p, CHOOSE k \in freeChains(p) : \A j \in freeChains(p) : k <= j>>

\* What the chains C are after closePosition has run up to its first await:
\* without a current price it throws and its catch sends the failure alert;
\* else the first attempt of executeWithRetries is submitted.
startedPc(C) == [c \in Chains |-> IF c \in C THEN (IF price > 0 THEN "order" ELSE "alert")
                                  ELSE cPc[c]]
startedAttempt(C) == [c \in Chains |-> IF c \in C THEN (IF price > 0 THEN 1 ELSE 0)
                                       ELSE cAttempt[c]]

\* closePosition(position, reason) called for the open position p by
\* checkPosition on an exit trigger or by the close route.
exitTriggered(p) ==
  /\ p \in getOpenPositions
  /\ freeChains(p) # {}
  /\ cPc' = startedPc({freeChain(p)})
  /\ cAttempt' = startedAttempt({freeChain(p)})
  /\ closeAsked' = closeAsked \cup {p}
  /\ UNCHANGED <<cEm, emFailed, authConfig, reqAuth, reqStatus, emPc, emTotal, emFailures,
                 emSummaries,
                 stratVars, monVars, cbVars, hVars, posVars, feedVars, envVars, wsVars, apiVars,
                 ptVars, rsVars, cmVars, pmVars, hbVars, ntVars, stVars>>

\* A chain of emergencyCloseAll that reaches the catch of closePosition.
failedOfCall(c) == IF cEm[c] THEN emFailed + 1 ELSE emFailed

\* The gateway answers attempt cAttempt[c] of the sell order of chain c.
\* On success the Position object is marked closed and saved.
closeOrderAnswered(c, answer) ==
  /\ cPc[c] = "order"
  /\ (answer = "success") = gatewayOk
  /\ CASE answer = "success" ->
            /\ cPc' = [cPc EXCEPT ![c] = "save"]
            /\ cAttempt' = [cAttempt EXCEPT ![c] = 0]
            /\ positions' = [positions EXCEPT ![c[1]].status =
                               IF positions[c[1]].status = "none" THEN "none" ELSE "closed"]
            /\ UNCHANGED emFailed
       [] answer = "error" /\ cAttempt[c] < MAX_RETRIES ->
            /\ cPc' = [cPc EXCEPT ![c] = "delay"]
            /\ UNCHANGED <<cAttempt, positions, emFailed>>
       [] answer = "rejected" /\ cAttempt[c] < MAX_RETRIES ->
            /\ cAttempt' = [cAttempt EXCEPT ![c] = cAttempt[c] + 1]
            /\ UNCHANGED <<cPc, positions, emFailed>>
       [] OTHER ->
            /\ cPc' = [cPc EXCEPT ![c] = "alert"]
            /\ cAttempt' = [cAttempt EXCEPT ![c] = 0]
            /\ emFailed' = failedOfCall(c)
            /\ UNCHANGED positions
  /\ UNCHANGED <<price, cEm, closeAsked, authConfig, reqAuth, reqStatus, emPc, emTotal,
                 emFailures, emSummaries,
                 stratVars, monVars, cbVars, hVars, feedVars, envVars, wsVars, apiVars, ptVars,
                 rsVars, cmVars, pmVars, hbVars, ntVars, stVars>>

\* The retry delay of chain c is over: its next attempt is submitted.
closeRetryDelayOver(c) ==
  /\ cPc[c] = "delay"
  /\ cPc' = [cPc EXCEPT ![c] = "order"]
  /\ cAttempt' = [cAttempt EXCEPT ![c] = cAttempt[c] + 1]
  /\ UNCHANGED <<cEm, closeAsked, stratVars, monVars, cbVars, hVars, posVars, feedVars,
                 envVars, wsVars, emVars, apiVars, ptVars, rsVars, cmVars, pmVars, hbVars, ntVars,
                 stVars>>

\* savePosition has answered chain c: on success PortfolioMonitor.closePosition
\* deletes the Position from the map and the notification is sent; on
\* failure the catch sends the failure alert.
closeSaved(c) ==
  /\ cPc[c] = "save"
  /\ IF storeOk
     THEN /\ cPc' = [cPc EXCEPT ![c] = "notify"]
          /\ positions' = [positions EXCEPT ![c[1]] = NoPosition]
          /\ closeAsked' = closeAsked \ {c[1]}
          /\ UNCHANGED emFailed
     ELSE /\ cPc' = [cPc EXCEPT ![c] = "alert"]
          /\ emFailed' = failedOfCall(c)
          /\ UNCHANGED <<positions, closeAsked>>
  /\ UNCHANGED <<price, cAttempt, cEm, authConfig, reqAuth, reqStatus, emPc,
                 emTotal, emFailures, emSummaries,
                 stratVars, monVars, cbVars, hVars, feedVars, envVars, wsVars, apiVars, ptVars,
                 rsVars, cmVars, pmVars, hbVars, ntVars, stVars>>

\* The 'Position Closed' notification of chain c has been sent:
\* closePosition returns.
closeNotifiedEffect(c) ==
  /\ cPc[c] = "notify"
  /\ cPc' = [cPc EXCEPT ![c] = "free"]
  /\ cEm' = [cEm EXCEPT ![c] = FALSE]
  /\ UNCHANGED <<cAttempt, closeAsked, stratVars, monVars, cbVars, hVars, posVars, feedVars,
                 envVars, wsVars, emVars, apiVars, ptVars, rsVars, cmVars, pmVars, hbVars, stVars>>

closeNotified(c) == closeNotifiedEffect(c) /\ UNCHANGED ntVars

\* A catch that would end the call without a timer.
retryDropped(c) == "free"

\* Where the catch of closePosition leaves chain c after its alert: with
\* the timer of the next attempt set.
retryScheduled(c) == "timer"

\* The failure alert of chain c has been sent (sendNotification never
\* throws): the catch sets the 5 s timer and closePosition returns.
closeAlertedEffect(c) ==
  /\ cPc[c] = "alert"
  /\ cPc' = [cPc EXCEPT ![c] = retryScheduled(c)]
  /\ cEm' = [cEm EXCEPT ![c] = FALSE]
  /\ UNCHANGED <<cAttempt, closeAsked, stratVars, monVars, cbVars, hVars, posVars, feedVars,
                 envVars, wsVars, emVars, apiVars, ptVars, rsVars, cmVars, pmVars, hbVars, stVars>>

closeAlerted(c) == closeAlertedEffect(c) /\ UNCHANGED ntVars

\* The 5 s timer of chain c fires: closePosition is called again with the
\* same Position object.
closeTimerFires(c) ==
  /\ cPc[c] = "timer"
  /\ cPc' = startedPc({c})
  /\ cAttempt' = startedAttempt({c})
  /\ UNCHANGED <<cEm, closeAsked, stratVars, monVars, cbVars, hVars, posVars, feedVars,
                 envVars, wsVars, emVars, apiVars, ptVars, rsVars, cmVars, pmVars, hbVars, ntVars,
                 stVars>>

\* ------------------------------------- emergencyCloseAll and its route
\* The results of Promise.allSettled with status 'rejected': closePosition
\* catches whatever fails in it and returns, and each promise has a catch
\* of its own besides, so every result is 'fulfilled'.
rejectedOfCall == 0

\* A wait that would end with the first promise settled.
anySettled == \E c \in Chains : ~cEm[c]

\* Promise.allSettled(closePromises) has resolved.
allSettled == \A c \in Chains : ~cEm[c]

\* POST /emergency/close-all with auth_code auth.  A code that differs from
\* EMERGENCY_AUTH_CODE is answered 403; else emergencyCloseAll runs up to
\* its await: closePosition is called for every open position.
emergencyRoute(auth) ==
  /\ emPc = "idle"
  /\ reqAuth' = auth
  /\ IF auth # authConfig
     THEN /\ reqStatus' = "403"
          /\ UNCHANGED <<closeVars, emPc, emTotal, emFailures, emFailed, emSummaries>>
     ELSE LET open == getOpenPositions
              C == {freeChain(p) : p \in open}
          IN /\ \A p \in open : freeChains(p) # {}
             /\ reqStatus' = "invoked"
             /\ cPc' = startedPc(C)
             /\ cAttempt' = startedAttempt(C)
             /\ cEm' = [c \in Chains |-> c \in C]
             /\ closeAsked' = closeAsked \cup open
             /\ emPc' = "waiting"
             /\ emTotal' = Cardinality(open)
             /\ emFailed' = (IF price > 0 THEN 0 ELSE Cardinality(open))
             /\ emFailures' = 0
             /\ emSummaries' = 0
  /\ UNCHANGED <<authConfig, stratVars, monVars, cbVars, hVars, posVars, feedVars, envVars, wsVars,
                 apiVars, ptVars, rsVars, cmVars, pmVars, hbVars, ntVars, stVars>>

\* emergencyCloseAll after its await: it counts the rejected results and
\* sends the summary (reason, total_positions, failures).
emergencySettled ==
  /\ emPc = "waiting"
  /\ allSettled
  /\ emFailures' = rejectedOfCall
  /\ emSummaries' = emSummaries + 1
  /\ emPc' = "summary"
  /\ UNCHANGED <<authConfig, reqAuth, reqStatus, emTotal, emFailed,
                 stratVars, monVars, cbVars, hVars, posVars, feedVars, envVars, wsVars, closeVars,
                 apiVars, ptVars, rsVars, cmVars, pmVars, hbVars, ntVars, stVars>>

\* The summary has been sent: the route answers 'Emergency close initiated'.
emergencySummarySentEffect ==
  /\ emPc = "summary"
  /\ emPc' = "idle"
  /\ reqStatus' = "200"
  /\ UNCHANGED <<authConfig, reqAuth, emTotal, emFailures, emFailed, emSummaries,
                 stratVars, monVars, cbVars, hVars, posVars, feedVars, envVars, wsVars, closeVars,
                 apiVars, ptVars, rsVars, cmVars, pmVars, hbVars, stVars>>

emergencySummarySent == emergencySummarySentEffect /\ UNCHANGED ntVars

chainStep(c) ==
  \/ \E answer \in {"success", "error", "rejected"} : closeOrderAnswered(c, answer)
  \/ closeRetryDelayOver(c)
  \/ closeSaved(c)
  \/ closeNotified(c)
  \/ closeAlerted(c)
  \/ closeTimerFires(c)

InitCloseAll ==
  /\ InitApproved(StrategyIds, {e \in ParserExits : e.sl_value > 0})
  /\ InitMonitor /\ InitBreaker /\ InitHandlers /\ InitPositions /\ InitRest

NextClose ==
  \/ \E s \in StrategyIds : enterPosition(s, 0)
  \/ \E newPrice \in ClosePrices : priceTick(newPrice)
  \/ \E gateway, saves \in BOOLEAN : environmentChanges(gateway, saves)
  \/ \E p \in PosIds : exitTriggered(p)
  \/ \E c \in Chains, answer \in {"success", "error", "rejected"} : closeOrderAnswered(c, answer)
  \/ \E c \in Chains : closeRetryDelayOver(c)
  \/ \E c \in Chains : closeSaved(c)
  \/ \E c \in Chains : closeNotified(c)
  \/ \E c \in Chains : closeAlerted(c)
  \/ \E c \in Chains : closeTimerFires(c)

\* Answers, timers and notifications come in the end; triggers, prices and
\* the health of the gateway and of the store are free.
SpecClose ==
  /\ InitCloseAll
  /\ [][NextClose]_vars
  /\ \A c \in Chains : WF_vars(chainStep(c))

InitEmergencyAll ==
  /\ InitApproved(StrategyIds, {e \in ParserExits : e.sl_value > 0})
  /\ InitMonitor /\ InitBreaker /\ InitHandlers /\ InitPositions
  /\ InitFeed /\ InitWs /\ InitPreTrade /\ InitClose /\ InitEmergency /\ InitConditions
  /\ authConfig \in AuthConfigs

NextEmergency ==
  \/ \E s \in StrategyIds : enterPosition(s, 0)
  \/ \E gateway, saves \in BOOLEAN : environmentChanges(gateway, saves)
  \/ \E c \in Chains, answer \in {"success", "error", "rejected"} : closeOrderAnswered(c, answer)
  \/ \E c \in Chains : closeRetryDelayOver(c)
  \/ \E c \in Chains : closeSaved(c)
  \/ \E c \in Chains : closeNotified(c)
  \/ \E c \in Chains : closeAlerted(c)
  \/ \E c \in Chains : closeTimerFires(c)
  \/ \E auth \in AuthCodes : emergencyRoute(auth)
  \/ emergencySettled
  \/ emergencySummarySent

SpecEmergency == InitEmergencyAll /\ [][NextEmergency]_vars

\* C5, its safety: a position for which closePosition was called and that
\* is still in the map has a closePosition call in progress or the timer of
\* the next one set.
C5_NeverAbandoned ==
  \A p \in closeAsked :
    positions[p].status # "none" => \E k \in 1..MaxChains : cPc[<<p, k>>] # "free"

\* C5, its steps: an attempt that fails goes to the failure alert, the
\* alert to the 5 s timer, and the timer to a new attempt.
C5_FailureAlertsAndRetries ==
  \A c \in Chains :
    /\ cPc[c] \in {"order", "save"} /\ cPc'[c] \notin {"order", "delay", "save", "notify"}
         => cPc'[c] = "alert"
    /\ cPc[c] = "alert" /\ cPc'[c] # "alert" => cPc'[c] = "timer"
    /\ cPc[c] = "timer" /\ cPc'[c] # "timer" => cPc'[c] \in {"order", "alert"}

closedAndRemoved(p) == positions[p].status = "none"

C6_SummaryCountsFailedAttempts ==
  emSummaries > 0 => emFailures = emFailed

\* C7, at the call: a close attempt is started for every position that is
\* open, and their number is the total of the summary.
C7_EveryOpenPositionAttempted ==
  emPc = "idle" /\ emPc' = "waiting"
    => /\ emTotal' = Cardinality(getOpenPositions)
       /\ \A p \in getOpenPositions :
            \E k \in 1..MaxChains :
              /\ cPc[<<p, k>>] = "free"
              /\ cPc'[<<p, k>>] \in {"order", "alert"}
              /\ cEm'[<<p, k>>]

\* C7, the summary: it is sent when no attempt of the call is still
\* running, as the first and only one of the call.
C7_SummaryAfterAllSettled ==
  emSummaries' > emSummaries
    => /\ emSummaries' = 1
       /\ \A c \in Chains : ~cEm[c]

\* C7: emergencyCloseAll starts a close attempt for every open position
\* and sends exactly one summary, after all attempts have settled,
\* whatever their outcomes.
C7_AllAttemptedOneSummary ==
  /\ [][C7_EveryOpenPositionAttempted]_vars
  /\ [][C7_SummaryAfterAllSettled]_vars
  /\ [](emPc = "waiting" => emSummaries = 0)
  /\ [](emPc = "summary" \/ (emPc = "idle" /\ reqStatus = "200") => emSummaries = 1)

\* C7, its case: the summary of a call with two positions is out, one of
\* the two close attempts having failed and the other not.
C7_Witness ==
  /\ emPc = "summary"
  /\ emSummaries = 1
  /\ emTotal = 2
  /\ emFailed = 1

\* C8: a request whose auth_code is not the configured shared secret (a
\* request without auth_code included) is answered 403 and does not invoke
\* emergencyCloseAll, whatever the configuration of the server.
C8_MismatchIsRejected ==
  reqStatus # "none"
    => (reqStatus = "403" <=> ~(authConfig = "secret" /\ reqAuth = "secret"))

\* ------------------------------------------------------ MarketDataStream
maxReconnectAttempts == 5

\* The comparisons of JavaScript on the numbers parseFloat gives.
leqZero(x) == x.kind = "num" /\ x.v <= 0
isFinite(x) == x.kind = "num"

\* (quote.ask - quote.bid) / quote.price > 0.1, for a quote that has passed
\* the tests before it (price finite and above 0, bid and ask not <= 0):
\* a NaN bid or ask gives NaN, which is not above 0.1.
spreadAbove10(quote) ==
  CASE quote.bid.kind = "nan" \/ quote.ask.kind = "nan" -> FALSE
    [] quote.bid.kind = "inf" /\ quote.ask.kind = "inf" -> FALSE
    [] quote.ask.kind = "inf" -> TRUE
    [] quote.bid.kind = "inf" -> FALSE
    [] OTHER -> (quote.ask.v - quote.bid.v) * 10 > quote.price.v

\* MarketDataStream.validateQuote: the spread test logs a warning and
\* nothing else.
validateQuote(quote) ==
  IF leqZero(quote.price) \/ leqZero(quote.bid) \/ leqZero(quote.ask) THEN FALSE
  ELSE IF ~isFinite(quote.price) THEN FALSE
  ELSE TRUE

\* The ticker messages of the feed, after parseFloat.
TickPrices2 == {num(0), num(100), NaN, Infinity}
TickBids == {num(0), num(80), num(99)}
TickAsks == {num(0), num(100)}
Ticks == [symbol : Symbols, price : TickPrices2, bid : TickBids, ask : TickAsks]

\* A 'message' event of socket k carrying a ticker: processTickerMessage.
\* A socket delivers messages while it is open, and after close() has been
\* called on it until its 'close' event.
processTickerMessage(k, quote) ==
  /\ ~emitting
  /\ sock[k] \in {"open", "closing"}
  /\ nHistory < MaxTicks
  /\ lastHeartbeat' = 0
  /\ UNCHANGED sinceCheck
  /\ tick' = quote
  /\ IF validateQuote(quote)
     THEN /\ lastQuotes' = [lastQuotes EXCEPT ![quote.symbol] = quote]
          /\ nHistory' = nHistory + 1
          /\ priceHistory' = [high |-> quote.price.v, low |-> quote.price.v,
                              close |-> quote.price.v, age |-> "fresh"]
          /\ price' = quote.price.v
          /\ nQuoteEvents' = nQuoteEvents + 1
     ELSE UNCHANGED <<lastQuotes, nHistory, priceHistory, price, nQuoteEvents>>
  /\ UNCHANGED <<sock, ws, reconnectAttempts, reconnectTimers, lastDelay, heartbeatInterval,
                 emitting, stratVars, monVars, cbVars, hVars, positions, feedVars, envVars,
                 closeVars, emVars, apiVars, dailyStartValue, realizedToday, tradeError, rsVars,
                 cmVars, pmVars, ntVars, stVars>>

freeSockets == {k \in Sockets : sock[k] = "none"}

\* connect(): a new WebSocket becomes this.ws; the handlers of the sockets
\* before it stay registered.
connect ==
  /\ freeSockets # {}
  /\ LET k == CHOOSE f \in freeSockets : \A g \in freeSockets : f <= g
     IN /\ sock' = [sock EXCEPT ![k] = "connecting"]
        /\ ws' = k

\* initialize(), at startup.
initialize ==
  /\ ws = 0
  /\ connect
  /\ stopped' = FALSE
  /\ UNCHANGED <<reconnectAttempts, reconnectTimers, lastDelay, heartbeatInterval, emitting,
                 lastQuotes, tick, nHistory, nQuoteEvents,
                 stratVars, monVars, cbVars, hVars, posVars, feedVars, envVars, closeVars, emVars,
                 apiVars, ptVars, rsVars, cmVars, pmVars, hbVars, ntVars>>

\* A timer of handleDisconnection fires.
reconnectTimerFires ==
  /\ ~emitting
  /\ reconnectTimers > 0
  /\ reconnectTimers' = reconnectTimers - 1
  /\ connect
  /\ UNCHANGED <<reconnectAttempts, lastDelay, heartbeatInterval, emitting,
                 lastQuotes, tick, nHistory, nQuoteEvents,
                 stratVars, monVars, cbVars, hVars, posVars, feedVars, envVars, closeVars, emVars,
                 apiVars, ptVars, rsVars, cmVars, pmVars, hbVars, ntVars, stVars>>

\* The 'open' handler of socket k.  It tells the browser clients
\* (io.emit) and emits nothing to the listeners inside the process.
socketOpens(k) ==
  /\ ~emitting
  /\ sock[k] = "connecting"
  /\ sock' = [sock EXCEPT ![k] = "open"]
  /\ isConnected' = TRUE
  /\ reconnectAttempts' = 0
  /\ heartbeatInterval' = TRUE
  /\ sinceCheck' = 0
  /\ UNCHANGED lastHeartbeat
  /\ UNCHANGED <<ws, reconnectTimers, lastDelay, emitting, lastQuotes, tick, nHistory,
                 nQuoteEvents, dataFresh, passPc, passLeft, disconnectedSeen,
                 signalAfterDisconnect,
                 stratVars, monVars, cbVars, hVars, posVars, envVars, closeVars, emVars, apiVars,
                 ptVars, rsVars, cmVars, pmVars, ntVars, stVars>>

\* handleDisconnection up to its emit('disconnected'), the sockets being
\* `socks` when it is called: the listeners that ConditionMonitor has
\* registered run inside the emit, each calling stopMonitoring.
handleDisconnection(socks) ==
  /\ isConnected' = FALSE
  /\ heartbeatInterval' = FALSE
  /\ sock' = IF ws # 0 /\ socks[ws] = "open" THEN [socks EXCEPT ![ws] = "closing"] ELSE socks
  /\ emitting' = TRUE
  /\ disconnectedSeen' = TRUE
  /\ IF nListeners > 0 THEN stopMonitoringEffect ELSE UNCHANGED monVars
  /\ UNCHANGED <<ws, reconnectAttempts, reconnectTimers, lastDelay, lastQuotes, tick, nHistory,
                 nQuoteEvents, dataFresh, passPc, passLeft, signalAfterDisconnect,
                 stratVars, cbVars, hVars, posVars, envVars, closeVars, emVars, apiVars, ptVars,
                 rsVars, cmVars, pmVars, hbVars, ntVars, stVars>>

\* The delay handleDisconnection gives its setTimeout, in milliseconds.
backoffLinear(attempts) == 1000 * (attempts + 1)

backoffDelay(attempts) == Min(1000 * 2^attempts, 30000)

\* The rest of handleDisconnection, after the listeners have returned: the
\* quote table is cleared and the next connect() scheduled.
disconnectionCompletes ==
  /\ emitting
  /\ emitting' = FALSE
  /\ lastQuotes' = [a \in Symbols |-> NoQuote]
  /\ IF reconnectAttempts < maxReconnectAttempts
     THEN /\ lastDelay' = backoffDelay(reconnectAttempts)
          /\ reconnectAttempts' = reconnectAttempts + 1
          /\ reconnectTimers' = reconnectTimers + 1
     ELSE UNCHANGED <<lastDelay, reconnectAttempts, reconnectTimers>>
  /\ UNCHANGED <<sock, ws, heartbeatInterval, tick, nHistory, nQuoteEvents,
                 stratVars, monVars, cbVars, hVars, posVars, feedVars, envVars, closeVars, emVars,
                 apiVars, ptVars, rsVars, cmVars, pmVars, hbVars, ntVars, stVars>>

\* The 'error' event of socket k: the socket is destroyed ("failed") and
\* its 'close' event follows.  A socket on which close() was called before
\* it had opened ("aborted") raises both as well.
socketErrors(k) ==
  /\ ~emitting
  /\ reconnectTimers < MaxTimers
  /\ sock[k] \in {"connecting", "open", "aborted"}
  /\ handleDisconnection([sock EXCEPT ![k] = "failed"])

\* The 'close' event of socket k: the connection is lost, or the closing
\* that close() ("closing") or an error began is over.
socketCloses(k) ==
  /\ ~emitting
  /\ reconnectTimers < MaxTimers
  /\ sock[k] \in {"open", "closing", "failed"}
  /\ handleDisconnection([sock EXCEPT ![k] = "none"])

\* The heartbeat check finds that no message has come for 30 s.
heartbeatStale ==
  /\ ~emitting
  /\ reconnectTimers < MaxTimers
  /\ heartbeatInterval
  /\ handleDisconnection(sock)

\* The types of the messages that are not tickers.
MessageTypes == {"subscriptions", "heartbeat", "error", "other"}

\* handleMessage for a message that is not a ticker: lastHeartbeat is set
\* and nothing else is done, whatever the type.  (The ticker goes on to
\* processTickerMessage.)
handleMessage(k, type) ==
  /\ ~emitting
  /\ sock[k] \in {"open", "closing"}
  /\ lastHeartbeat' = 0
  /\ UNCHANGED <<sinceCheck, stratVars, monVars, cbVars, hVars, posVars, feedVars, envVars,
                 closeVars, emVars, wsVars, apiVars, ptVars, rsVars, cmVars, pmVars, ntVars,
                 stVars>>

\* A check that would wait for 40 s of silence.
heartbeatCheckLate ==
  /\ ~emitting
  /\ heartbeatInterval
  /\ sinceCheck = HeartbeatEvery
  /\ reconnectTimers < MaxTimers
  /\ IF lastHeartbeat > StaleAfter + HeartbeatEvery
     THEN handleDisconnection(sock)
     ELSE /\ sinceCheck' = 0
          /\ UNCHANGED <<lastHeartbeat, stratVars, monVars, cbVars, hVars, posVars, feedVars,
                         envVars, closeVars, emVars, wsVars, apiVars, ptVars, rsVars, cmVars,
                         pmVars, ntVars, stVars>>

\* The callback of the heartbeat interval, every 10 s: handleDisconnection
\* when the last message is more than 30 s old.
heartbeatCheck ==
  /\ ~emitting
  /\ heartbeatInterval
  /\ sinceCheck = HeartbeatEvery
  /\ reconnectTimers < MaxTimers
  /\ IF lastHeartbeat > StaleAfter
     THEN handleDisconnection(sock)
     ELSE /\ sinceCheck' = 0
          /\ UNCHANGED <<lastHeartbeat, stratVars, monVars, cbVars, hVars, posVars, feedVars,
                         envVars, closeVars, emVars, wsVars, apiVars, ptVars, rsVars, cmVars,
                         pmVars, ntVars, stVars>>

\* 5 s pass. An interval that is due fires before the time goes on.
timePasses ==
  /\ ~emitting
  /\ ~(heartbeatInterval /\ sinceCheck = HeartbeatEvery)
  /\ lastHeartbeat' = Min(lastHeartbeat + 1, MaxSilence)
  /\ sinceCheck' = IF heartbeatInterval THEN sinceCheck + 1 ELSE sinceCheck
  /\ UNCHANGED <<stratVars, monVars, cbVars, hVars, posVars, feedVars, envVars,
                 closeVars, emVars, wsVars, apiVars, ptVars, rsVars, cmVars, pmVars, ntVars,
                 stVars>>

\* What close() makes of a socket: one that is open closes, one that is
\* still connecting aborts its handshake.
closeCalled(state) ==
  CASE state = "open" -> "closing"
    [] state = "connecting" -> "aborted"
    [] OTHER -> state

\* disconnect(), and stop() which calls it: the heartbeat is cleared, the
\* socket closed and forgotten, the quotes cleared.  The handlers of the
\* socket stay registered and the timers that are pending stay set.
disconnect ==
  /\ ~emitting
  /\ heartbeatInterval' = FALSE
  /\ sock' = IF ws # 0 THEN [sock EXCEPT ![ws] = closeCalled(sock[ws])] ELSE sock
  /\ ws' = 0
  /\ isConnected' = FALSE
  /\ lastQuotes' = [a \in Symbols |-> NoQuote]
  /\ stopped' = TRUE
  /\ UNCHANGED <<reconnectAttempts, reconnectTimers, lastDelay, emitting, tick, nHistory,
                 nQuoteEvents, dataFresh, passPc, passLeft, disconnectedSeen,
                 signalAfterDisconnect, stratVars, monVars, cbVars, hVars, posVars, envVars,
                 closeVars, emVars, apiVars, ptVars, rsVars, cmVars, pmVars, hbVars, ntVars>>

\* At startup the feed has no socket and is not connected.
InitFeedAll ==
  /\ InitApproved({1}, {e \in ParserExits : e.sl_value > 0})
  /\ InitMonitor /\ InitBreaker /\ InitHandlers
  /\ positions = [p \in PosIds |-> NoPosition]
  /\ price = 0
  /\ InitWs /\ InitPreTrade /\ InitClose /\ InitEmergency /\ authConfig = "secret"
  /\ InitConditions
  /\ isConnected = FALSE
  /\ dataFresh = FALSE
  /\ passPc = [q \in Passes |-> "idle"]
  /\ passLeft = [q \in Passes |-> {}]
  /\ disconnectedSeen = FALSE
  /\ signalAfterDisconnect = FALSE

NextFeed ==
  \/ initialize
  \/ reconnectTimerFires
  \/ \E k \in Sockets : socketOpens(k)
  \/ \E k \in Sockets : socketErrors(k)
  \/ \E k \in Sockets : socketCloses(k)
  \/ heartbeatStale
  \/ disconnectionCompletes
  \/ \E k \in Sockets, quote \in Ticks : processTickerMessage(k, quote)
  \/ (~emitting /\ startMonitoring)

SpecFeed == InitFeedAll /\ [][NextFeed]_vars

\* The connections alone, without the messages they carry.
NextReconnect ==
  \/ initialize
  \/ reconnectTimerFires
  \/ \E k \in Sockets : socketOpens(k)
  \/ \E k \in Sockets : socketErrors(k)
  \/ \E k \in Sockets : socketCloses(k)
  \/ heartbeatStale
  \/ disconnectionCompletes
  \/ (~emitting /\ startMonitoring)

\* A handler that has begun runs to its end, and a timer that is set fires.
SpecReconnect ==
  /\ InitFeedAll /\ [][NextReconnect]_vars
  /\ WF_vars(disconnectionCompletes)
  /\ WF_vars(reconnectTimerFires)

\* ---------------------------------------------------------------- claims
\* What the quote of a tick must be for the tick to be refused.
mustBeRejected(quote) ==
  \/ leqZero(quote.price) \/ leqZero(quote.bid) \/ leqZero(quote.ask)
  \/ ~isFinite(quote.price)
  \/ spreadAbove10(quote)

\* C11: a tick with price <= 0, bid <= 0, ask <= 0, a price that is not
\* finite, or a spread (ask - bid) / price above 10% is neither stored in the
\* quote table, nor added to the price history, nor emitted as a 'quote'.
C11_BadTickIsDropped ==
  [][\A k \in Sockets, quote \in Ticks :
       processTickerMessage(k, quote) /\ mustBeRejected(quote)
         => /\ lastQuotes' = lastQuotes
            /\ nHistory' = nHistory
            /\ nQuoteEvents' = nQuoteEvents]_vars

\* C12: whenever the feed is not connected the quote table is empty, for
\* every observer that can run then, the 'disconnected' listeners included.
C12_NoQuoteWhileDisconnected ==
  ~isConnected => \A a \in Symbols : lastQuotes[a] = NoQuote

\* The delays of the reconnections 1 to 5, in milliseconds.
ExpectedDelay == <<1000, 2000, 4000, 8000, 16000>>

\* C13: the k-th reconnection scheduled since the last open (k = 1..5) has
\* the delay min(1 s * 2^(k-1), 30 s); after the fifth nothing more is
\* scheduled; an open sets the count of attempts back to 0.
C13_BoundedBackoff ==
  /\ [](reconnectAttempts \in 0..5)
  /\ [][/\ reconnectTimers' > reconnectTimers
             => /\ reconnectAttempts' = reconnectAttempts + 1
                /\ lastDelay' = ExpectedDelay[reconnectAttempts']
        /\ reconnectAttempts = 5 /\ reconnectAttempts' = 5
             => reconnectTimers' <= reconnectTimers
        /\ (\E k \in Sockets : sock[k] = "connecting" /\ sock'[k] = "open")
             => reconnectAttempts' = 0]_vars

\* The fifth reconnection has failed as well: the feed has given up.
C13_Witness ==
  /\ reconnectAttempts = 5 /\ lastDelay = 16000
  /\ reconnectTimers = 0 /\ ~emitting
  /\ \A k \in Sockets : sock[k] = "none"

\* C14: once a disconnection has halted ConditionMonitor, if the feed is
\* connected again and stays so, monitoring resumes by itself.
C14_MonitoringResumes ==
  <>[]isConnected => ((disconnectedSeen /\ nListeners > 0 /\ ~isMonitoring) ~> isMonitoring)

\* ------------------------------------------ TradeExecutor.validatePreTrade
DailyLossFloor == -200000

\* technicalIndicators.isDataFresh(asset, 5): false without an entry.
isDataFresh5 == priceHistory.age = "fresh"

\* technicalIndicators.getSpread(asset), as validatePreTrade tests it
\* (spread && spread > 0.5): ((high - low) / close) * 100 of the last entry.
spreadAboveHalf ==
  /\ priceHistory.age # "none"
  /\ priceHistory.close # 0
  /\ (priceHistory.high - priceHistory.low) * 200 > priceHistory.close

\* The quantity executeTrade gives a position of 100,000 dollars.
quantityOf(position) == 10000000 \div position.entry_price

RECURSIVE totalPnl(_)
totalPnl(P) ==
  IF P = {} THEN 0
  ELSE LET p == CHOOSE q \in P : TRUE
       IN (positions[p].current_price - positions[p].entry_price) * quantityOf(positions[p])
            + totalPnl(P \ {p})

\* PortfolioMonitor.getDailyPnL
getDailyPnL == totalPnl(getOpenPositions) - dailyStartValue

\* The error validatePreTrade throws, its tests taken in their order, or the
\* one executeTrade throws after it.
preTradeError(strategy, s) ==
  IF ~(strategy.stop_loss_percent > 0) THEN "CRITICAL: Stop loss not set - trade blocked"
  ELSE IF ~isDataFresh5 THEN "Stale market data - trade blocked"
  ELSE IF spreadAboveHalf THEN "High spread detected - trade blocked"
  ELSE IF \E p \in getOpenPositions : positions[p].strategy_id = s
       THEN "Position already open for this strategy"
  ELSE IF getDailyPnL < DailyLossFloor THEN "Daily loss limit exceeded - trading halted"
  ELSE "No current price available"

\* Five seconds go by without a quote.
historyAges ==
  /\ priceHistory.age = "fresh"
  /\ priceHistory' = [priceHistory EXCEPT !.age = "stale"]
  /\ UNCHANGED <<dailyStartValue, realizedToday, tradeError, stratVars, monVars, cbVars, hVars,
                 posVars, feedVars, envVars, wsVars, closeVars, emVars, apiVars, rsVars, cmVars,
                 pmVars, hbVars, ntVars, stVars>>

\* executeTrade for a signal of the active strategy s, taken as one step,
\* with what validatePreTrade reads: when it passes and there is a price the
\* order is submitted and filled and the Position saved and added; otherwise
\* the error is thrown to the caller.
tradeOnSignal(s, atr) ==
  /\ s \in getActiveStrategies
  /\ usedPositions # PosIds
  /\ IF /\ validatePreTrade(strategies[s], s,
                            isDataFresh5 /\ ~spreadAboveHalf /\ ~(getDailyPnL < DailyLossFloor))
        /\ price > 0
     THEN /\ tradeError' = "none"
          /\ addPosition(freePosition,
                 [strategy_id |-> s, status |-> "open",
                  entry_price |-> price, current_price |-> price,
                  trailing_stop_price |-> calculateStopLoss(price, strategies[s].exit, atr),
                  take_profit_price |-> calculateTakeProfit(price, strategies[s].exit, atr)])
     ELSE /\ tradeError' = preTradeError(strategies[s], s)
          /\ UNCHANGED positions
  /\ UNCHANGED <<price, priceHistory, dailyStartValue, realizedToday, stratVars, monVars, cbVars,
                 hVars, feedVars, envVars, wsVars, closeVars, emVars, apiVars, rsVars, cmVars,
                 pmVars, hbVars, ntVars, stVars>>

\* The quotes of one asset at two prices, with a bid at the price or 1% under it.
PreTradeTicks ==
  {[symbol |-> 1, price |-> num(p), bid |-> num(p - d), ask |-> num(p)] :
     p \in {9700, 10000}, d \in {0, 100}}

\* The value of the portfolio at the start of the day, and what the day has
\* realized before the first signal.
StartValues == {0, 1000000}
RealizedValues == {0, -300000}

InitPreTradeAll ==
  /\ InitApproved(StrategyIds, {e \in ParserExits : e.sl_value > 0})
  /\ InitMonitor /\ InitBreaker /\ InitHandlers
  /\ positions = [p \in PosIds |-> NoPosition]
  /\ price = 0
  /\ InitWs /\ InitClose /\ InitEmergency /\ authConfig = "secret"
  /\ InitConditions
  /\ isConnected = FALSE
  /\ dataFresh = FALSE
  /\ passPc = [q \in Passes |-> "idle"]
  /\ passLeft = [q \in Passes |-> {}]
  /\ disconnectedSeen = FALSE
  /\ signalAfterDisconnect = FALSE
  /\ priceHistory = NoPriceData
  /\ dailyStartValue \in StartValues
  /\ realizedToday \in RealizedValues
  /\ tradeError = "none"

\* The ticks of the feed, the checks of the open positions (the closes that
\* would realize a profit or a loss do not succeed here) and the signals.
NextPreTrade ==
  \/ initialize
  \/ \E k \in Sockets : socketOpens(k)
  \/ \E k \in Sockets, quote \in PreTradeTicks : processTickerMessage(k, quote)
  \/ historyAges
  \/ \E p \in PosIds, atr \in AtrOutcomes, saved \in BOOLEAN :
       checkPosition(p, atr, saved, FALSE, FALSE)
  \/ \E s \in StrategyIds, atr \in AtrOutcomes : tradeOnSignal(s, atr)

SpecPreTrade == InitPreTradeAll /\ [][NextPreTrade]_vars

\* The bid/ask spread of the last quote of the asset is above 0.5% of its price.
quoteSpreadAboveHalf ==
  /\ lastQuotes[1] # NoQuote
  /\ (lastQuotes[1].ask.v - lastQuotes[1].bid.v) * 200 > lastQuotes[1].price.v

\* C17: when the data of the asset is missing or older than 5 s, or its
\* bid/ask spread is above 0.5% of its price, executeTrade submits no order
\* and creates no Position, and throws.
C17_StaleOrWideIsRejected ==
  [][\A s \in StrategyIds, atr \in AtrOutcomes :
       tradeOnSignal(s, atr) /\ (~isDataFresh5 \/ quoteSpreadAboveHalf)
         => positions' = positions /\ tradeError' # "none"]_vars

\* The day's profit or loss: what it has realized and what the open
\* positions stand at.
dayPnL == realizedToday + totalPnl(getOpenPositions)

\* C18: a trade that passes the tests before it is rejected for the daily
\* loss exactly when the day's realized plus unrealized P&L is below -$2000.
C18_DailyLossExactlyBelowFloor ==
  [][\A s \in StrategyIds, atr \in AtrOutcomes :
       /\ tradeOnSignal(s, atr)
       /\ strategies[s].stop_loss_percent > 0
       /\ isDataFresh5 /\ ~spreadAboveHalf
       /\ \A p \in getOpenPositions : positions[p].strategy_id # s
       => ((tradeError' = "Daily loss limit exceeded - trading halted")
             <=> (dayPnL < DailyLossFloor))]_vars

\* ------------------------------------------- the requests to StrategyManager
\* Every request of the strategies routes, with every id and stop loss.
NextApprove ==
  \/ \E newIds \in SUBSET StrategyIds, parsed \in [StrategyIds -> ParserExits] :
       loadStrategies(newIds, parsed)
  \/ \E s \in StrategyIds, slp \in SlPercents, saved \in BOOLEAN : approveStrategy(s, slp, saved)
  \/ \E s \in StrategyIds, slp \in SlPercents, saved \in BOOLEAN : editStrategy(s, slp, saved)
  \/ \E s \in StrategyIds, saved \in BOOLEAN : pauseStrategy(s, saved)
  \/ \E s \in StrategyIds, saved \in BOOLEAN : resumeStrategy(s, saved)
  \/ \E s \in StrategyIds, exit \in ParserExits : reparseStrategy(s, exit)

SpecApprove == InitStrat /\ [][NextApprove]_vars

\* C15: a pending strategy gets the status active, or enters the active set,
\* through approveStrategy with a stop loss above 0 and through nothing else.
C15_PendingActivatedByApprovalOnly ==
  [][\A s \in StrategyIds :
       /\ strategies[s].status = "pending"
       /\ strategies'[s].status = "active" \/ (s \in activeStrategies' \ activeStrategies)
       => \E slp \in SlPercents \ {0} : approveStrategy(s, slp, TRUE)]_vars

\* C16: approveStrategy with a stop loss of 0 throws 'Stop loss is
\* required...' whatever the id, an id the manager does not know included,
\* and changes neither the strategies, nor the active set, nor the store.
C16_ZeroStopLossIsTheError ==
  [][\A s \in StrategyIds, saved \in BOOLEAN :
       approveStrategy(s, 0, saved)
         => /\ approveError' = "Stop loss is required and must be greater than 0"
            /\ UNCHANGED stratVars]_vars

\* ------------------------------------------------------- CircuitBreaker
\* The breaker with every strategy active at the start: the signals whose
\* daily-loss check trips it, the requests of the operator, and the resets.
InitTrip ==
  /\ InitApproved(StrategyIds, {e \in ParserExits : e.sl_value > 0})
  /\ InitMonitor /\ InitBreaker /\ InitHandlers /\ InitPositions /\ InitRest

NextTrip ==
  \/ \E s \in StrategyIds, saved \in BOOLEAN : pauseStrategy(s, saved)
  \/ \E s \in StrategyIds, saved \in BOOLEAN : resumeStrategy(s, saved)
  \/ startMonitoring
  \/ stopMonitoring
  \/ \E h \in Handlers, s \in StrategyIds : entrySignal(h, s)
  \/ \E h \in Handlers : dailyLossChecked(h, TRUE)
  \/ \E h \in Handlers, kept \in 0..MaxFailedTrades : handlerCatch(h, kept)
  \/ \E t \in Trips : tripPauseFailed(t)
  \/ \E t \in Trips : tripPauseSaved(t)
  \/ \E t \in Trips : tripAlerted(t)
  \/ isTripped /\ reset

SpecTrip == InitTrip /\ [][NextTrip]_vars

\* Trip call t has returned: its sendCriticalAlert is over.
tripCompletes(t) == tripPc[t] = "alert" /\ tripPc'[t] = "idle"

recordSystemError(kept) ==
  /\ systemErrors' = kept + 1
  /\ IF kept + 1 >= maxSystemErrors THEN trip ELSE UNCHANGED tripTouched

\* An uncaught exception or an unhandled rejection of the process.
systemError(kept) ==
  /\ systemErrors < MaxErrors
  /\ kept \in 0..systemErrors
  /\ recordSystemError(kept)
  /\ UNCHANGED <<store, failedTrades, trippedEvents, resetLeft, consecutiveStops, hVars, posVars, feedVars,
                 envVars, wsVars, closeVars, emVars, apiVars, ptVars, cmVars, pmVars, hbVars,
                 ntVars, stVars>>

\* The breaker with its two windows filling, its trips, and the reset route
\* called at any time.
NextReset ==
  \/ startMonitoring
  \/ \E h \in Handlers, s \in StrategyIds : entrySignal(h, s)
  \/ \E h \in Handlers : handlerThrows(h)
  \/ \E h \in Handlers, kept \in 0..MaxFailedTrades : handlerCatch(h, kept)
  \/ \E kept \in 0..MaxErrors : systemError(kept)
  \/ \E t \in Trips : tripPauseFailed(t)
  \/ \E t \in Trips : tripPauseSaved(t)
  \/ \E t \in Trips : tripAlerted(t)
  \/ reset

SpecReset == Init /\ [][NextReset]_vars

\* C20: after reset(authority) has returned, the tripped flag is false and
\* the failed-trade window and the system-error window are empty (the map of
\* consecutive stops always is), whether the breaker was tripped or not
\* when reset was called.
C20_ResetClearsWhateverTheState ==
  resetLeft = [isTripped |-> FALSE, failedTrades |-> 0, systemErrors |-> 0]

\* The trips, the resets and the two requests that restart trading; no
\* request pauses a strategy or stops the monitor, so that only a trip does.
NextResume ==
  \/ \E s \in StrategyIds, saved \in BOOLEAN : resumeStrategy(s, saved)
  \/ startMonitoring
  \/ \E h \in Handlers, s \in StrategyIds : entrySignal(h, s)
  \/ \E h \in Handlers : dailyLossChecked(h, TRUE)
  \/ \E h \in Handlers, kept \in 0..MaxFailedTrades : handlerCatch(h, kept)
  \/ \E t \in Trips : tripPauseFailed(t)
  \/ \E t \in Trips : tripPauseSaved(t)
  \/ \E t \in Trips : tripAlerted(t)
  \/ isTripped /\ reset

SpecResume == InitTrip /\ [][NextResume]_vars

C22_BoundedRetryWithDelay ==
  [][\A h \in Handlers :
       /\ hAttempt'[h] <= MAX_RETRIES
       /\ hPc[h] = "order" /\ hPc'[h] = "save" => hAttempt'[h] = hAttempt[h]
       /\ hAttempt[h] >= 1 /\ hAttempt'[h] = hAttempt[h] + 1 => hPc[h] = "delay"
       /\ hPc[h] = "order" /\ hPc'[h] = "catch" => UNCHANGED positions]_vars

\* C23: every Position the monitor holds belongs to a strategy whose status
\* is active or paused, never to one that is pending or archived, and none
\* is created for such a strategy.
C23_PositionsOfActiveOrPausedOnly ==
  \A p \in PosIds :
    positions[p].status # "none"
      => strategies[positions[p].strategy_id].status \in {"active", "paused"}

\* ------------------------------------------- ConditionMonitor, conditions
\* A percentage move as a fraction num / den with den > 0, and its
\* comparisons with a threshold in percents.
MovePrices == {100, 103}
frac(n, d) == [num |-> n, den |-> d]
Moves == {frac(0, 1), frac(3, 1), frac(-3, 1)}
moveAbove(move, threshold) == move.num > threshold * move.den
moveBelow(move, threshold) == move.num < threshold * move.den

\* The switch on the direction of checkPercentageMove and of the triggers.
directionRule(direction, move, threshold) ==
  CASE direction = "up" -> moveAbove(move, threshold)
    [] direction = "down" -> moveBelow(move, -threshold)
    [] OTHER -> moveAbove(move, threshold) \/ moveBelow(move, -threshold)

\* priceHistory of BTC: its samples from the oldest to the latest.
oldestSample == CHOOSE k \in sampled : \A j \in sampled : j <= k
latestSample == CHOOSE k \in sampled : \A j \in sampled : k <= j

\* getPercentageMove(BTC, timeframe): the latest close against the close of
\* the sample within a minute of one timeframe ago or, when the history
\* holds none, against the oldest sample it holds.
getPercentageMove ==
  LET currentPrice == marketAt[latestSample]
      comparePrice == IF TimeframeSlot \in sampled THEN marketAt[TimeframeSlot]
                      ELSE marketAt[oldestSample]
  IN  frac((currentPrice - comparePrice) * 100, comparePrice)

\* A freshness test that would pass whatever the age.
isDataFreshAlways(a) == TRUE

\* isDataFresh(asset, 10)
isDataFresh10(a) == dataAge[a] = "fresh"

checkPercentageMove(condition, moves) ==
  directionRule(condition.direction, moves[condition.primary_asset], condition.threshold)

\* The triggers of a multi_asset_correlation condition, with the default
\* threshold of 2%.
allTriggersActive(condition, moves) ==
  \A i \in 1..Len(condition.triggers) :
    directionRule(condition.triggers[i].direction, moves[condition.triggers[i].asset], 2)

\* A check that would forget the record when the triggers are not all met.
checkResetting(condition, moves, tracking) ==
  LET key == delayKey(condition) IN
  IF Len(condition.triggers) = 0 \/ ~allTriggersActive(condition, moves)
  THEN [met |-> FALSE, tracking |-> [tracking EXCEPT ![key] = NoTime]]
  ELSE IF tracking[key] # NoTime
  THEN IF today - tracking[key] >= condition.delay_days
       THEN [met |-> TRUE, tracking |-> [tracking EXCEPT ![key] = NoTime]]
       ELSE [met |-> FALSE, tracking |-> tracking]
  ELSE [met |-> FALSE, tracking |-> [tracking EXCEPT ![key] = today]]

\* A check that would keep its record under the key and the delay.
checkOwnRecord(condition, moves, tracking) ==
  LET key == <<condition.target_asset,
               IF condition.delay_days = 1 THEN <<"ETH">> ELSE <<"BTC", "ETH">>>> IN
  IF Len(condition.triggers) = 0 \/ ~allTriggersActive(condition, moves)
  THEN [met |-> FALSE, tracking |-> tracking]
  ELSE IF tracking[key] # NoTime
  THEN IF today - tracking[key] >= condition.delay_days
       THEN [met |-> TRUE, tracking |-> [tracking EXCEPT ![key] = NoTime]]
       ELSE [met |-> FALSE, tracking |-> tracking]
  ELSE [met |-> FALSE, tracking |-> [tracking EXCEPT ![key] = today]]

\* checkMultiAssetCorrelation with the delay records `tracking`: what it
\* returns and the records it leaves.
checkMultiAssetCorrelation(condition, moves, tracking) ==
  LET key == delayKey(condition) IN
  IF Len(condition.triggers) = 0 \/ ~allTriggersActive(condition, moves)
  THEN [met |-> FALSE, tracking |-> tracking]
  ELSE IF condition.delay_days > 0
  THEN IF tracking[key] # NoTime
       THEN IF today - tracking[key] >= condition.delay_days
            THEN [met |-> TRUE, tracking |-> [tracking EXCEPT ![key] = NoTime]]
            ELSE [met |-> FALSE, tracking |-> tracking]
       ELSE [met |-> FALSE, tracking |-> [tracking EXCEPT ![key] = today]]
  ELSE [met |-> TRUE, tracking |-> tracking]

evaluateEntryConditions(condition, moves, tracking) ==
  CASE condition.type = "percentage_move" ->
         [met |-> checkPercentageMove(condition, moves), tracking |-> tracking]
    [] condition.type = "multi_asset_correlation" ->
         checkMultiAssetCorrelation(condition, moves, tracking)
    [] OTHER -> [met |-> FALSE, tracking |-> tracking]

\* The loop of checkAllConditions from strategy s on, in the order of the
\* active set: checkStrategyConditions skips a strategy one of whose
\* required assets has no fresh data, else evaluates it and emits
\* entry_signal when its condition is met.
RECURSIVE checkFrom(_, _, _)
checkFrom(s, moves, acc) ==
  IF s > NStrategies THEN acc
  ELSE IF s \notin getActiveStrategies
          \/ \E a \in entry[s].required_assets : ~isDataFresh10(a)
  THEN checkFrom(s + 1, moves, acc)
  ELSE LET result == evaluateEntryConditions(entry[s], moves, acc.tracking) IN
       checkFrom(s + 1, moves,
                 [evaluated |-> acc.evaluated \cup {s},
                  signals |-> IF result.met THEN acc.signals \cup {s} ELSE acc.signals,
                  tracking |-> result.tracking])

\* The 5 s interval fires: checkAllConditions, which returns at once when
\* the feed is not connected; moves[a] is what getPercentageMove gives for a.
checkAllConditions(moves) ==
  /\ monitoringInterval
  /\ LET pass == IF isConnected
                 THEN checkFrom(1, moves, [evaluated |-> {}, signals |-> {},
                                           tracking |-> triggerDelayTracking])
                 ELSE [evaluated |-> {}, signals |-> {}, tracking |-> triggerDelayTracking]
     IN /\ triggerDelayTracking' = pass.tracking
        /\ tickSeen' = [n |-> 1 - tickSeen.n, connected |-> isConnected,
                        fresh |-> {a \in Assets : dataAge[a] = "fresh"},
                        evaluated |-> pass.evaluated, signals |-> pass.signals]
  /\ UNCHANGED <<entry, marketAt, sampled, dataAge, today, stratVars, monVars, cbVars, hVars,
                 posVars, feedVars, envVars, wsVars, closeVars, emVars, apiVars, ptVars, rsVars,
                 pmVars, hbVars, ntVars, stVars>>

\* A valid quote of asset a arrives and addPriceData adds it to the price
\* history; the one of BTC carries the price of the market.  An instant of
\* the model stands for any number of samples: `full` says that the history
\* then exceeds MAX_HISTORY and that the sample addPriceData shifts out was
\* the last one left of the oldest instant.
priceSample(a, full) ==
  /\ isConnected
  /\ dataAge[a] # "fresh"
  /\ dataAge' = [dataAge EXCEPT ![a] = "fresh"]
  /\ full => a = "BTC" /\ sampled \ {0} # {}
  /\ sampled' = (IF a # "BTC" THEN sampled
                 ELSE IF full THEN (sampled \cup {0}) \ {oldestSample}
                 ELSE sampled \cup {0})
  /\ UNCHANGED <<entry, marketAt, today, triggerDelayTracking, tickSeen, stratVars, monVars,
                 cbVars, hVars, posVars, feedVars, envVars, wsVars, closeVars, emVars, apiVars,
                 ptVars, rsVars, pmVars, hbVars, ntVars, stVars>>

\* More than ten seconds go by without a quote of asset a.
sampleAges(a) ==
  /\ dataAge[a] = "fresh"
  /\ dataAge' = [dataAge EXCEPT ![a] = "stale"]
  /\ UNCHANGED <<entry, marketAt, sampled, today, triggerDelayTracking, tickSeen, stratVars,
                 monVars, cbVars, hVars, posVars, feedVars, envVars, wsVars, closeVars, emVars,
                 apiVars, ptVars, rsVars, pmVars, hbVars, ntVars, stVars>>

\* Half a timeframe goes by, at the end of which the market is at newPrice:
\* every instant the model keeps is half a timeframe older.
halfTimeframePasses(newPrice) ==
  /\ marketAt' = [k \in Slots |-> IF k = 0 THEN newPrice
                                  ELSE IF k = 3 /\ 3 \in sampled THEN marketAt[3]
                                  ELSE marketAt[k - 1]]
  /\ sampled' = {Min(k + 1, 3) : k \in sampled}
  /\ dataAge' = [a \in Assets |-> IF dataAge[a] = "none" THEN "none" ELSE "stale"]
  /\ UNCHANGED <<entry, today, triggerDelayTracking, tickSeen, stratVars, monVars, cbVars, hVars,
                 posVars, feedVars, envVars, wsVars, closeVars, emVars, apiVars, ptVars, rsVars,
                 pmVars, hbVars, ntVars, stVars>>

\* A day goes by.
dayPasses ==
  /\ today < MaxDays
  /\ today' = today + 1
  /\ dataAge' = [a \in Assets |-> IF dataAge[a] = "none" THEN "none" ELSE "stale"]
  /\ UNCHANGED <<entry, marketAt, sampled, triggerDelayTracking, tickSeen, stratVars, monVars,
                 cbVars, hVars, posVars, feedVars, envVars, wsVars, closeVars, emVars, apiVars,
                 ptVars, rsVars, pmVars, hbVars, ntVars, stVars>>

\* Two approved strategies with percentage_move conditions on BTC, the
\* second of which also requires ETH; the market has not moved so far.
MoveConditions(required) ==
  {[type |-> "percentage_move", primary_asset |-> "BTC", direction |-> d, threshold |-> 2,
    required_assets |-> required, target_asset |-> "BTC", triggers |-> <<>>,
    delay_days |-> 0] : d \in {"up", "down", "any"}}

InitMove ==
  /\ InitApproved(StrategyIds, {e \in ParserExits : e.sl_value > 0})
  /\ InitMonitor /\ InitBreaker /\ InitHandlers /\ InitPositions /\ InitOther
  /\ entry \in [StrategyIds -> MoveConditions({"BTC"}) \cup MoveConditions({"BTC", "ETH"})]
  /\ entry[1].required_assets = {"BTC"}
  /\ \A s \in StrategyIds \ {1} :
       entry[s].required_assets = {"BTC", "ETH"} /\ entry[s].direction = "up"
  /\ marketAt = [k \in Slots |-> 100]
  /\ sampled = {}
  /\ dataAge = [a \in Assets |-> "none"]
  /\ today = 0
  /\ triggerDelayTracking = [key \in DelayKeys |-> NoTime]
  /\ tickSeen = NoTick
  /\ exitReason = "none"
  /\ lastAlert = "none"

\* What getPercentageMove returns to a tick: for BTC the move of its history.
movesNow ==
  [a \in Assets |-> IF a = "BTC" /\ sampled # {} THEN getPercentageMove ELSE frac(0, 1)]

NextMove ==
  \/ startMonitoring
  \/ feedDisconnects
  \/ feedConnects
  \/ \E a \in Assets, full \in BOOLEAN : priceSample(a, full)
  \/ \E a \in Assets : sampleAges(a)
  \/ \E newPrice \in MovePrices : halfTimeframePasses(newPrice)
  \/ checkAllConditions(movesNow)

SpecMove == InitMove /\ [][NextMove]_vars

\* C24: a tick evaluates, and emits a signal for, no strategy one of whose
\* required assets had no sample or one older than 10 s, and evaluates
\* nothing when the feed is not connected.
C24_StaleStrategyIsSkipped ==
  /\ \A s \in tickSeen.evaluated : entry[s].required_assets \subseteq tickSeen.fresh
  /\ tickSeen.signals \subseteq tickSeen.evaluated
  /\ ~tickSeen.connected => tickSeen.evaluated = {}

\* A tick that has evaluated the first strategy and skipped the second,
\* for which ETH had no fresh sample.
C24_Witness ==
  /\ tickSeen.connected
  /\ tickSeen.fresh = {"BTC"}
  /\ tickSeen.signals = {1}
  /\ tickSeen.evaluated = {1}
  /\ entry[2].required_assets = {"BTC", "ETH"}
  /\ 2 \in getActiveStrategies

\* The change of the market of BTC over the timeframe.
marketMove ==
  frac((marketAt[0] - marketAt[TimeframeSlot]) * 100, marketAt[TimeframeSlot])

\* C25: on a tick with the feed connected and fresh data, a signal is
\* emitted for a percentage_move strategy if and only if the percentage
\* change over the timeframe satisfies the rule of its direction, on the
\* first such tick and on every later one.
C25_SignalIffMoveOverTimeframe ==
  [][checkAllConditions(movesNow) /\ isConnected
       => \A s \in getActiveStrategies :
            (entry[s].type = "percentage_move"
             /\ \A a \in entry[s].required_assets : dataAge[a] = "fresh")
              => (s \in tickSeen'.signals
                    <=> directionRule(entry[s].direction, marketMove, entry[s].threshold))]_vars

\* Two approved strategies with multi_asset_correlation conditions and a
\* delay; the moves getPercentageMove returns are those of the market.
DelayConditions ==
  {[type |-> "multi_asset_correlation", primary_asset |-> "BTC", direction |-> "any",
    threshold |-> 0, required_assets |-> {"ETH"}, target_asset |-> "BTC",
    triggers |-> triggers, delay_days |-> d] : triggers \in TriggerLists, d \in {1, 2}}

InitDelay ==
  /\ InitApproved(StrategyIds, {e \in ParserExits : e.sl_value > 0})
  /\ InitMonitor /\ InitBreaker /\ InitHandlers /\ InitPositions /\ InitOther
  /\ entry \in [StrategyIds -> DelayConditions]
  /\ marketAt = [k \in Slots |-> 100]
  /\ sampled = {}
  /\ dataAge = [a \in Assets |-> "none"]
  /\ today = 0
  /\ triggerDelayTracking = [key \in DelayKeys |-> NoTime]
  /\ tickSeen = NoTick
  /\ exitReason = "none"
  /\ lastAlert = "none"

TickMoves == [Assets -> {frac(0, 1), frac(3, 1)}]

NextDelay ==
  \/ startMonitoring
  \/ \E s \in StrategyIds, saved \in BOOLEAN : pauseStrategy(s, saved)
  \/ priceSample("ETH", FALSE)
  \/ dayPasses
  \/ \E moves \in TickMoves : checkAllConditions(moves)

SpecDelay == InitDelay /\ [][NextDelay]_vars

\* The strategies a tick evaluates: active, with fresh data.
evaluatedNow ==
  {s \in getActiveStrategies : \A a \in entry[s].required_assets : dataAge[a] = "fresh"}

\* C26: for a condition with delay_days > 0, an evaluation with all
\* triggers satisfied and no record under its key records the date and
\* returns false; it returns true only with all triggers satisfied and a
\* record at least delay_days old, which it clears; with a trigger not
\* satisfied it leaves the record as it is.  A tick does so for every
\* strategy that is alone on its key.
C26_DelayRecordedThenFired ==
  [][\A moves \in TickMoves :
       checkAllConditions(moves) /\ isConnected
         => \A s \in evaluatedNow :
              LET c == entry[s]
                  key == delayKey(c)
                  rec == triggerDelayTracking[key]
                  r == checkMultiAssetCorrelation(c, moves, triggerDelayTracking)
                  alone == \A u \in evaluatedNow \ {s} : delayKey(entry[u]) # key
              IN  /\ allTriggersActive(c, moves) /\ rec = NoTime
                       => ~r.met /\ r.tracking[key] = today
                  /\ r.met => /\ allTriggersActive(c, moves)
                              /\ rec # NoTime /\ today - rec >= c.delay_days
                              /\ r.tracking[key] = NoTime
                  /\ ~allTriggersActive(c, moves) => ~r.met /\ r.tracking = triggerDelayTracking
                  /\ alone => /\ (s \in tickSeen'.signals) = r.met
                              /\ triggerDelayTracking'[key] = r.tracking[key]]_vars

\* A tick has emitted the signal of a strategy alone on its key, one day
\* or more after the record, and has cleared the record.
C26_Witness ==
  /\ today >= 1
  /\ tickSeen.signals = {1}
  /\ delayKey(entry[1]) # delayKey(entry[2])
  /\ triggerDelayTracking[delayKey(entry[1])] = NoTime
  /\ triggerDelayTracking[delayKey(entry[2])] # NoTime

\* C27: two strategies whose conditions have the same target asset and the
\* same assets of triggers in the same order share one record: the date
\* recorded by the evaluation of one is what the evaluation of the other
\* reads, the record one clears when it fires is gone for the other, and
\* a tick never emits the signals of both.
C27_SameKeyOneRecord ==
  [][\A moves \in TickMoves :
       checkAllConditions(moves) /\ isConnected
         => \A s, u \in evaluatedNow :
              (s < u /\ entry[s].target_asset = entry[u].target_asset
                     /\ assetsOf(entry[s].triggers) = assetsOf(entry[u].triggers))
                => LET key == delayKey(entry[u])
                       r == checkMultiAssetCorrelation(entry[s], moves, triggerDelayTracking)
                       q == checkMultiAssetCorrelation(entry[u], moves, r.tracking)
                   IN  /\ delayKey(entry[s]) = key
                       /\ r.tracking[key] # triggerDelayTracking[key] /\ r.tracking[key] # NoTime
                            => ~q.met /\ q.tracking = r.tracking
                       /\ r.met => r.tracking[key] = NoTime /\ ~q.met
                       /\ ~(s \in tickSeen'.signals /\ u \in tickSeen'.signals)]_vars

\* Two strategies with the same key: a tick has emitted the signal of the
\* first, and the second, evaluated after it on the same moves with a
\* delay no longer, has found no record and started a new one.
C27_Witness ==
  /\ delayKey(entry[1]) = delayKey(entry[2])
  /\ entry[2].delay_days <= entry[1].delay_days
  /\ tickSeen.evaluated = {1, 2}
  /\ tickSeen.signals = {1}
  /\ triggerDelayTracking[delayKey(entry[2])] = today

\* ---------------------------------------- PortfolioMonitor.checkPosition
\* C28: a position tick requests closePosition for an open long position
\* if and only if its current price is at or below its trailing stop, or at
\* or above its take-profit price, or its holding time exceeds max_hold,
\* and the reason it gives names a trigger that holds.
C28_ExitIffTriggerHolds ==
  [][\A p \in PosIds, atr \in AtrOutcomes, saved, expired, closes \in BOOLEAN :
       checkPosition(p, atr, saved, expired, closes)
         => LET current == IF price = 0 THEN positions[p].current_price ELSE price
                stopHit == current <= stopAfterUpdate(p, atr)
                targetHit == current >= positions[p].take_profit_price
            IN  /\ exitReason' # "none" <=> (stopHit \/ targetHit \/ expired)
                /\ exitReason' = "Stop loss triggered" => stopHit
                /\ exitReason' = "Take profit triggered" => targetHit
                /\ exitReason' = "Max hold period exceeded" => expired]_vars

\* ------------------------------------------------- recordFailedTrade
\* C29: recordFailedTrade leaves the breaker tripped exactly when the failed
\* trades of the last hour, the new one included, are 3 or more, or when it
\* was tripped already; the failures older than an hour are not counted.
C29_TripsAtThreeWithinTheHour ==
  [][\A h \in Handlers, kept \in 0..MaxFailedTrades :
       handlerCatch(h, kept)
         => /\ failedTrades' = kept + 1
            /\ isTripped' <=> (isTripped \/ kept + 1 >= MaxFailedTrades)
            /\ kept + 1 >= MaxFailedTrades /\ ~isTripped
                 => ~isMonitoring' /\ tripStops' = tripStops + 1]_vars

\* The third failed trade within the hour has tripped the breaker, after
\* an older failure had been dropped from the window.
C29_Witness ==
  /\ isTripped
  /\ failedTrades = MaxFailedTrades
  /\ tripCalls = 1

\* ------------------------------------------------- consecutive stop losses
\* C30: each time a position is closed by the stop-loss trigger, the
\* consecutive stop-loss counter of its strategy is incremented.
\* Only recordStopLoss increments the map and nothing calls it: no action
\* of PortfolioMonitor or TradeExecutor writes consecutiveStops.
C30_StopLossExitsAreCounted ==
  [][\A p \in PosIds, atr \in AtrOutcomes, saved, expired, closes \in BOOLEAN :
       /\ checkPosition(p, atr, saved, expired, closes)
       /\ exitReason' = "Stop loss triggered"
       /\ positions'[p] = NoPosition
       => consecutiveStops'[positions[p].strategy_id]
            = consecutiveStops[positions[p].strategy_id] + 1]_vars

\* ------------------------------------------------------- the heartbeat
\* A ticker that is kept and one that is dropped.
HeartbeatTicks ==
  {q \in Ticks : q.bid = num(99) /\ q.ask = num(100) /\ q.price \in {num(100), NaN}}

\* The feed with its messages and the time between them.
NextHeartbeat ==
  \/ initialize
  \/ reconnectTimerFires
  \/ \E k \in Sockets : socketOpens(k)
  \/ \E k \in Sockets : socketCloses(k)
  \/ disconnectionCompletes
  \/ \E k \in Sockets, quote \in HeartbeatTicks : processTickerMessage(k, quote)
  \/ \E k \in Sockets, type \in MessageTypes : handleMessage(k, type)
  \/ heartbeatCheck
  \/ timePasses

SpecHeartbeat == InitFeedAll /\ [][NextHeartbeat]_vars

\* C31: the check of the heartbeat interval is set, and at most 10 s away,
\* whenever the feed is connected; it runs handleDisconnection (status
\* false, 'disconnected' emitted, the quotes cleared when it completes)
\* exactly when the last message is more than 30 s old; and every message
\* received, of whatever type, restarts the period.
C31_SilenceDisconnectsAtTheCheck ==
  /\ [](isConnected => heartbeatInterval /\ sinceCheck <= HeartbeatEvery)
  /\ [][heartbeatCheck
          => IF lastHeartbeat > StaleAfter
             THEN ~isConnected' /\ ~heartbeatInterval' /\ emitting' /\ disconnectedSeen'
             ELSE UNCHANGED <<isConnected, heartbeatInterval, emitting, lastQuotes>>]_vars
  /\ [][emitting /\ disconnectionCompletes
          => \A a \in Symbols : lastQuotes'[a] = NoQuote]_vars
  /\ [][(\/ \E k \in Sockets, type \in MessageTypes : handleMessage(k, type)
         \/ \E k \in Sockets, quote \in HeartbeatTicks : processTickerMessage(k, quote))
          => lastHeartbeat' = 0]_vars

\* A connected feed that was silent for more than 30 s has been
\* disconnected by the check: the handler is inside its emit.
C31_Witness ==
  /\ emitting
  /\ ~isConnected
  /\ lastHeartbeat > StaleAfter
  /\ sinceCheck = HeartbeatEvery
  /\ \E k \in Sockets : sock[k] = "closing"

\* ------------------------------------------------------ overlapping ticks
\* C32: at most one pass of checkAllConditions is in progress at any time:
\* a tick that fires while a pass is waiting is skipped.
C32_AtMostOnePassInProgress ==
  Cardinality({q \in Passes : passPc[q] # "idle"}) <= 1

\* ------------------------------------------------- NotificationService
\* A notification method without its try/catch.
alertUncaught(slackOk) == IF slackOk THEN "sent" ELSE "thrown"

\* sendTradeAlert, sendErrorAlert and sendCriticalAlert, and sendNotification
\* which calls one of them: the whole body is inside a try whose catch logs,
\* so the promise resolves whether Slack has taken the message or not.
alertOutcome(slackOk) == IF slackOk THEN "sent" ELSE "logged"

\* What each caller does with a notification call that rejects.
\* executeTrade: the Position is added already; its catch rethrows.
enterPositionThrown(s, atr) ==
  /\ s \in getActiveStrategies
  /\ validatePreTrade(strategies[s], s, TRUE)
  /\ price > 0
  /\ usedPositions # PosIds
  /\ addPosition(freePosition,
                 [strategy_id |-> s, status |-> "open",
                  entry_price |-> price, current_price |-> price,
                  trailing_stop_price |-> calculateStopLoss(price, strategies[s].exit, atr),
                  take_profit_price |-> calculateTakeProfit(price, strategies[s].exit, atr)])
  /\ tradeError' = "Trade execution failed"
  /\ UNCHANGED <<price, priceHistory, dailyStartValue, realizedToday, stratVars, monVars, cbVars,
                 hVars, feedVars, envVars, wsVars, closeVars, emVars, apiVars, rsVars, cmVars,
                 pmVars, hbVars, stVars>>

\* closePosition, after the fill: its catch sends the failure alert.
closeNotifiedThrown(c) ==
  /\ cPc[c] = "notify"
  /\ cPc' = [cPc EXCEPT ![c] = "alert"]
  /\ emFailed' = failedOfCall(c)
  /\ UNCHANGED <<cAttempt, cEm, closeAsked, authConfig, reqAuth, reqStatus, emPc, emTotal,
                 emFailures, emSummaries, stratVars, monVars, cbVars, hVars, posVars, feedVars,
                 envVars, wsVars, apiVars, ptVars, rsVars, cmVars, pmVars, hbVars, stVars>>

\* closePosition, in its catch: the call rejects before the timer is set.
closeAlertedThrown(c) ==
  /\ cPc[c] = "alert"
  /\ cPc' = [cPc EXCEPT ![c] = "free"]
  /\ cEm' = [cEm EXCEPT ![c] = FALSE]
  /\ UNCHANGED <<cAttempt, closeAsked, stratVars, monVars, cbVars, hVars, posVars, feedVars,
                 envVars, wsVars, emVars, apiVars, ptVars, rsVars, cmVars, pmVars, hbVars, stVars>>

\* emergencyCloseAll: the route's catch answers 500.
emergencySummaryThrown ==
  /\ emPc = "summary"
  /\ emPc' = "idle"
  /\ reqStatus' = "500"
  /\ UNCHANGED <<authConfig, reqAuth, emTotal, emFailures, emFailed, emSummaries,
                 stratVars, monVars, cbVars, hVars, posVars, feedVars, envVars, wsVars, closeVars,
                 apiVars, ptVars, rsVars, cmVars, pmVars, hbVars, stVars>>

\* trip: it rejects before it emits 'tripped', and so do its callers.
tripAlertThrown(t) ==
  /\ tripPc[t] = "alert"
  /\ tripPc' = [tripPc EXCEPT ![t] = "idle"]
  /\ tripCur' = [tripCur EXCEPT ![t] = FALSE]
  /\ thrown(awaiting(t))
  /\ UNCHANGED <<stratVars, monVars, isTripped, failedTrades, tripNow, tripLeft,
                 tripCalls, tripStops, tripLoops, tripAlerts, trippedEvents,
                 posVars, feedVars, envVars, wsVars, closeVars, emVars, apiVars, ptVars, rsVars,
                 cmVars, pmVars, hbVars, stVars>>

\* The notifying steps, Slack taking the message (slackOk) or not.
enterPositionBy(s, atr, slackOk) ==
  /\ lastAlert' = alertOutcome(slackOk)
  /\ IF alertOutcome(slackOk) = "thrown"
     THEN enterPositionThrown(s, atr) ELSE enterPositionEffect(s, atr)

closeNotifiedBy(c, slackOk) ==
  /\ lastAlert' = alertOutcome(slackOk)
  /\ IF alertOutcome(slackOk) = "thrown"
     THEN closeNotifiedThrown(c) ELSE closeNotifiedEffect(c)

closeAlertedBy(c, slackOk) ==
  /\ lastAlert' = alertOutcome(slackOk)
  /\ IF alertOutcome(slackOk) = "thrown"
     THEN closeAlertedThrown(c) ELSE closeAlertedEffect(c)

emergencySummarySentBy(slackOk) ==
  /\ lastAlert' = alertOutcome(slackOk)
  /\ IF alertOutcome(slackOk) = "thrown"
     THEN emergencySummaryThrown ELSE emergencySummarySentEffect

tripAlertedBy(t, slackOk) ==
  /\ lastAlert' = alertOutcome(slackOk)
  /\ IF alertOutcome(slackOk) = "thrown"
     THEN tripAlertThrown(t) ELSE tripAlertedEffect(t)

NextNotify ==
  \/ \E s \in StrategyIds, slackOk \in BOOLEAN : enterPositionBy(s, 0, slackOk)
  \/ \E saves \in BOOLEAN : environmentChanges(TRUE, saves)
  \/ emergencyRoute("secret")
  \/ \E c \in Chains : closeOrderAnswered(c, "success")
  \/ \E c \in Chains : closeSaved(c)
  \/ \E c \in Chains, slackOk \in BOOLEAN : closeNotifiedBy(c, slackOk)
  \/ \E c \in Chains, slackOk \in BOOLEAN : closeAlertedBy(c, slackOk)
  \/ emergencySettled
  \/ \E slackOk \in BOOLEAN : emergencySummarySentBy(slackOk)
  \/ startMonitoring
  \/ \E h \in Handlers, s \in StrategyIds : entrySignal(h, s)
  \/ \E h \in Handlers : dailyLossChecked(h, TRUE)
  \/ \E t \in Trips : tripPauseSaved(t)
  \/ \E t \in Trips, slackOk \in BOOLEAN : tripAlertedBy(t, slackOk)

SpecNotify == InitEmergencyAll /\ [][NextNotify]_vars

C34_AtMostOneFilledSell ==
  [][\A c \in Chains :
       closeOrderAnswered(c, "success") => positions[c[1]].status = "open"]_vars

\* ------------------------------------------------------ filled entries
\* C35: when the save that follows the fill of an entry order has answered,
\* well or not, an open Position of the strategy is added to the map of
\* PortfolioMonitor.
C35_FilledEntryIsRegistered ==
  [][\A h \in Handlers, saved \in BOOLEAN :
       positionSaved(h, saved)
         => \E p \in PosIds :
              /\ positions[p].status = "none"
              /\ positions'[p].status = "open"
              /\ positions'[p].strategy_id = hStrat[h]]_vars

\* ------------------------------------------------------ rejected entries
\* The entries with a gateway and a store that answer well: an executeTrade
\* fails in validatePreTrade only.
NextReject ==
  \/ startMonitoring
  \/ \E h \in Handlers, s \in StrategyIds : entrySignal(h, s)
  \/ \E h \in Handlers : dailyLossChecked(h, FALSE)
  \/ \E h \in Handlers, dataOk \in BOOLEAN, atr \in AtrOutcomes : executeTrade(h, dataOk, atr)
  \/ \E h \in Handlers : orderAnswered(h, "success")
  \/ \E h \in Handlers : positionSaved(h, TRUE)
  \/ \E h \in Handlers, kept \in 0..MaxFailedTrades : handlerCatch(h, kept)
  \/ \E t \in Trips : tripPauseSaved(t)
  \/ \E t \in Trips : tripAlerted(t)

SpecReject == Init /\ [][NextReject]_vars

\* C36: an executeTrade that rejects the entry in validatePreTrade throws
\* to the handler of the signal; the handler's catch records a failed
\* trade, and the breaker is tripped once three are in the window.
C36_EveryRejectionIsAFailedTrade ==
  /\ [][\A h \in Handlers, dataOk \in BOOLEAN, atr \in AtrOutcomes :
          /\ executeTrade(h, dataOk, atr)
          /\ ~(validatePreTrade(hObj[h], hStrat[h], dataOk) /\ price > 0)
          => hPc'[h] = "catch"]_vars
  /\ [][\A h \in Handlers :
          hPc[h] = "catch" /\ hPc'[h] # "catch"
          => /\ failedTrades' >= 1
             /\ failedTrades' >= MaxFailedTrades => isTripped']_vars

\* Three entries of a strategy were rejected while its position is open,
\* and the third has tripped the breaker.
C36_Witness ==
  /\ \E p \in PosIds : positions[p].status = "open"
  /\ \A h \in Handlers : hPc[h] = "idle"
  /\ failedTrades = MaxFailedTrades
  /\ tripCalls = 1
  /\ isTripped

\* ------------------------------------------------------ the active set
\* C37: the active set of StrategyManager holds the strategies whose status
\* is 'active', and no other.
C37_ActiveSetIsStatusActive ==
  activeStrategies = {s \in StrategyIds : strategies[s].status = "active"}

\* ------------------------------------------------------ reconnection
\* C38: at most one reconnection timer is pending, and at most one
\* WebSocket is open or being opened.
C38_OneTimerOneSocket ==
  /\ reconnectTimers <= 1
  /\ Cardinality({k \in Sockets : sock[k] \in {"connecting", "open"}}) <= 1

\* ------------------------------------------------------ disconnect()
\* The connections, with the calls of disconnect() and of initialize().
NextStop ==
  \/ initialize
  \/ disconnect
  \/ reconnectTimerFires
  \/ \E k \in Sockets : socketOpens(k)
  \/ \E k \in Sockets : socketErrors(k)
  \/ \E k \in Sockets : socketCloses(k)
  \/ heartbeatStale
  \/ disconnectionCompletes
  \/ (~emitting /\ startMonitoring)

SpecStop == InitFeedAll /\ [][NextStop]_vars

\* C39: after disconnect() no disconnection handling starts (no
\* 'disconnected' event), no reconnection timer is set and no connection
\* is attempted, until the feed is connected explicitly again.
C39_StaysDisconnected ==
  [][stopped /\ stopped'
       => /\ emitting' => emitting
          /\ reconnectTimers' <= reconnectTimers
          /\ \A k \in Sockets : sock'[k] = "connecting" => sock[k] = "connecting"]_vars

\* C40: ConditionMonitor has at most one 'disconnected' and one
\* 'connected' listener on the feed, however often monitoring is started
\* and stopped.
C40_AtMostOneListenerPair == nListeners <= 1
====
